---- MODULE Spec2Model ----
(***************************************************************************)
(* GarminSync: the activity-file metrics pipeline of                       *)
(* garminsync/activity_parser.py with the two numeric estimators of        *)
(* garminsync/fit_processor.                                               *)
(*                                                                         *)
(* Python values that may be None are sequences of length <= 1:            *)
(* None is <<>> and a value v is <<v>>.  An exception leaving a function   *)
(* is the outcome Raise(kind), a value returned the outcome Ok(v).         *)
(***************************************************************************)
EXTENDS Integers, Sequences, FiniteSets, TLC

VARIABLES
    uin, uout, upc,          \* one call of a pure function: argument, outcome, position
    activity, file, client, force_reprocess,   \* inputs of get_activity_metrics
    pc, metrics, ret, calls, \* get_activity_metrics: position, local, outcome, call log
    frames, acc, ppc, presult, \* parse_fit_file: frames read, accumulators, position, outcome
    sync_in, db, session_new, sidx, spc,   \* sync_database: inputs, rows stored, rows added, index, position
    inv,                     \* two invocations of get_activity_metrics, each with its locals
    running, mpc, wpc, task_queue, current, executed, jobs, scheduler_running,
                             \* GarminSyncDaemon: flag, thread positions, queue, task in the pool, log
    table, objs, worklist, widx, lpc, env, disk, trace
                             \* a loop over activities in a session: committed rows, session objects,
                             \* query result, index, position, environment, files written, log

vars == <<uin, uout, upc, activity, file, client, force_reprocess,
          pc, metrics, ret, calls, frames, acc, ppc, presult,
          sync_in, db, session_new, sidx, spc, inv,
          running, mpc, wpc, task_queue, current, executed, jobs, scheduler_running,
          table, objs, worklist, widx, lpc, env, disk, trace>>

unitVars == <<uin, uout, upc>>
pipeVars == <<activity, file, client, force_reprocess, pc, metrics, ret, calls>>
parseVars == <<frames, acc, ppc, presult>>
syncVars == <<sync_in, db, session_new, sidx, spc>>
concVars == <<inv>>
daemonVars == <<running, mpc, wpc, task_queue, current, executed, jobs, scheduler_running>>
loopVars == <<table, objs, worklist, widx, lpc, env, disk, trace>>

-----------------------------------------------------------------------------
(* Python values *)

None == <<>>
Some(v) == <<v>>
IsNone(o) == Len(o) = 0
Val(o) == o[1]

\* The outcome of a call that may raise: the value returned, or the exception
Ok(v) == [ok |-> TRUE, val |-> v]
Raise(kind) == [ok |-> FALSE, val |-> kind]
IsRaise(x) == ~x.ok

Min(a, b) == IF a < b THEN a ELSE b
Abs(a) == IF a < 0 THEN 0 - a ELSE a

\* s[lo:hi] of Python on a sequence (0-based, clipped to the length)
Slice(s, lo, hi) == SubSeq(s, lo + 1, Min(hi, Len(s)))

\* pat in s
Contains(s, pat) ==
    \E i \in 0..(Len(s) - Len(pat)) : SubSeq(s, i + 1, i + Len(pat)) = pat

-----------------------------------------------------------------------------
(* Bounds of the model *)

MaxHeaderLen == 14
MaxPad == 17

-----------------------------------------------------------------------------
(* detect_file_type *)

\* byte values of the signatures
XML_SIG == <<60, 63, 120, 109, 108>>         \* b'<?xml'
DOT_FIT == <<46, 70, 73, 84>>                \* b'.FIT'
FIT_DOT == <<70, 73, 84, 46>>                \* b'FIT.'
GZIP_MAGIC == <<31, 139>>                    \* b'\x1f\x8b'

HeaderWindow == 128
XmlWindow == 20

\* detect_file_type without the length test of its last rule
detect_file_type_ungated(f) ==
    IF ~f.readable THEN "error"
    ELSE LET header == Slice(f.bytes, 0, HeaderWindow) IN
         IF Contains(Slice(header, 0, XmlWindow), XML_SIG) THEN "xml"
         ELSE IF Len(header) >= 8 /\ Slice(header, 4, 8) = DOT_FIT THEN "fit"
         ELSE IF \/ Slice(header, 0, 4) = DOT_FIT
                 \/ Slice(header, 4, 8) = FIT_DOT
                 \/ Slice(header, 8, 12) = DOT_FIT THEN "fit"
         ELSE "unknown"

\* detect_file_type with the signature rules tried before the XML rule
detect_file_type_fit_first(f) ==
    IF ~f.readable THEN "error"
    ELSE LET header == Slice(f.bytes, 0, HeaderWindow) IN
         IF Len(header) >= 8 /\ Slice(header, 4, 8) = DOT_FIT THEN "fit"
         ELSE IF Len(header) >= 8
                 /\ (\/ Slice(header, 0, 4) = DOT_FIT
                     \/ Slice(header, 4, 8) = FIT_DOT
                     \/ Slice(header, 8, 12) = DOT_FIT) THEN "fit"
         ELSE IF Contains(Slice(header, 0, XmlWindow), XML_SIG) THEN "xml"
         ELSE "unknown"

detect_file_type(f) ==
    IF ~f.readable THEN "error"
    ELSE LET header == Slice(f.bytes, 0, HeaderWindow) IN
         IF Contains(Slice(header, 0, XmlWindow), XML_SIG) THEN "xml"
         ELSE IF Len(header) >= 8 /\ Slice(header, 4, 8) = DOT_FIT THEN "fit"
         ELSE IF Len(header) >= 8
                 /\ (\/ Slice(header, 0, 4) = DOT_FIT
                     \/ Slice(header, 4, 8) = FIT_DOT
                     \/ Slice(header, 8, 12) = DOT_FIT) THEN "fit"
         ELSE "unknown"

\* Byte sequences given to detect_file_type: three 4-byte blocks, then an
\* optional run of spaces followed by b'<?xml', cut at every length.
Blocks == {DOT_FIT, FIT_DOT, <<0, 0, 0, 0>>, <<31, 139, 8, 0>>}

RECURSIVE Spaces(_)
Spaces(n) == IF n = 0 THEN <<>> ELSE <<32>> \o Spaces(n - 1)

Tails == {<<>>} \cup {Spaces(k) \o XML_SIG : k \in 0..MaxPad}

SniffBlocks == {b1 \o b2 \o b3 : b1, b2, b3 \in Blocks}

SniffBytes ==
    {Slice(h, 0, n) : h \in SniffBlocks, n \in 0..MaxHeaderLen}
    \cup {h \o t : h \in {Slice(b, 0, n) : b \in SniffBlocks, n \in {0, 4, 8, 12}}, t \in Tails}

SniffFiles ==
    {[readable |-> r, bytes |-> b] : r \in BOOLEAN, b \in SniffBytes}

DetectInputs ==
    /\ uin \in {[fn |-> "detect_file_type", file |-> f] : f \in SniffFiles}
    /\ uout = None
    /\ upc = "call"

DetectCall ==
    /\ upc = "call"
    /\ uin.fn = "detect_file_type"
    /\ uout' = Some(Ok(detect_file_type(uin.file)))
    /\ upc' = "returned"
    /\ UNCHANGED <<uin, pipeVars, parseVars, syncVars, concVars, daemonVars, loopVars>>

-----------------------------------------------------------------------------
(* parse_xml_file *)

\* The text of an element: form "int" is an integer literal, "dec" a decimal
\* literal ("5000.0"), "bad" any text that is no number, "empty" no text at
\* all (element.text is None).  v is the number a literal denotes.
Text(form, v) == [form |-> form, v |-> v]

\* float(text) and int(text): the value, or the exception
py_float(t) == IF t.form \in {"int", "dec"} THEN Ok(t.v)
               ELSE IF t.form = "empty" THEN Raise("TypeError") ELSE Raise("ValueError")
py_int(t) == IF t.form = "int" THEN Ok(t.v)
             ELSE IF t.form = "empty" THEN Raise("TypeError") ELSE Raise("ValueError")

\* [int(hr.text) for hr in ...], skipping every text int() rejects
RECURSIVE hr_values(_)
hr_values(texts) ==
    IF texts = <<>> THEN <<>>
    ELSE LET v == py_int(Head(texts)) IN
         IF IsRaise(v) THEN hr_values(Tail(texts))
         ELSE <<v.val>> \o hr_values(Tail(texts))

RECURSIVE SeqMax(_)
SeqMax(s) == IF Len(s) = 1 THEN s[1]
             ELSE LET m == SeqMax(Tail(s)) IN IF s[1] > m THEN s[1] ELSE m

\* x = root.find(tag); x = float(x.text) if x is not None else None
\* el is None (no such element) or Some(text)
optional_float(el) == IF IsNone(el) THEN Ok(None) ELSE
    LET v == py_float(Val(el)) IN IF IsRaise(v) THEN v ELSE Ok(Some(v.val))

\* calories = int(calories.text) if calories is not None else None
optional_int(el) == IF IsNone(el) THEN Ok(None) ELSE
    LET v == py_int(Val(el)) IN IF IsRaise(v) THEN v ELSE Ok(Some(v.val))

\* The document a file holds, as ElementTree reads it: content.kind = "xml"
\* with wellformed, the first Activity element (None, or its Sport
\* attribute, itself None or a string), the first DistanceMeters,
\* TotalTimeSeconds and Calories elements and every HeartRateBpm/Value.
parse_xml_file(f) ==
    IF ~f.readable \/ f.content.kind # "xml" \/ ~f.content.wellformed THEN None
    ELSE LET doc == f.content
             distance == optional_float(doc.distance)
             duration == optional_float(doc.duration)
             calories == optional_int(doc.calories)
             hrs == hr_values(doc.hr)
         IN  IF IsNone(doc.activity) THEN None      \* None.get(...): AttributeError
             ELSE IF IsRaise(distance) \/ IsRaise(duration) \/ IsRaise(calories) THEN None
             ELSE Some(
                  [activityType |->
                      [typeKey |-> IF IsNone(Val(doc.activity).Sport) THEN Some("other")
                                   ELSE Val(doc.activity).Sport],
                   summaryDTO |->
                      [duration |-> duration.val,
                       distance |-> distance.val,
                       maxHR |-> IF hrs # <<>> THEN Some(SeqMax(hrs)) ELSE None,
                       avgPower |-> None,
                       calories |-> calories.val]])

MaxHr == 2

Texts == {Text("int", 5000), Text("dec", 1800), Text("bad", 0), Text("empty", 0)}
OptTexts == {None} \cup {Some(t) : t \in Texts}
HrTexts == {Text("int", 150), Text("int", 180), Text("bad", 0)}
HrLists == UNION {[1..n -> HrTexts] : n \in 0..MaxHr}

XmlContents ==
    {[kind |-> "xml", wellformed |-> w, activity |-> a, distance |-> d,
      duration |-> t, calories |-> c, hr |-> h] :
        w \in BOOLEAN,
        a \in {None, Some([Sport |-> None]), Some([Sport |-> Some("running")])},
        d \in OptTexts,
        t \in {None, Some(Text("int", 1800)), Some(Text("bad", 0))},
        c \in OptTexts,
        h \in HrLists}

XML_HEADER == XML_SIG \o <<32, 118>>         \* b'<?xml v'

XmlFiles == {[readable |-> TRUE, bytes |-> XML_HEADER, content |-> c] : c \in XmlContents}

XmlInputs ==
    /\ uin \in {[fn |-> "parse_xml_file", file |-> f] : f \in XmlFiles}
    /\ uout = None
    /\ upc = "call"

XmlCall ==
    /\ upc = "call"
    /\ uin.fn = "parse_xml_file"
    /\ uout' = Some(Ok(parse_xml_file(uin.file)))
    /\ upc' = "returned"
    /\ UNCHANGED <<uin, pipeVars, parseVars, syncVars, concVars, daemonVars, loopVars>>

-----------------------------------------------------------------------------
(* compute_gradient and distance_between_points *)

\* A number that results from a float division is the fraction n/d, d > 0.
Frac(n, d) == [n |-> n, d |-> d]

\* R * radians(1) with R = 6371000, to the metre: the haversine distance of
\* two points of one meridian that lie one unit of latitude apart
METRES_PER_UNIT == 111195

\* Points are <<lat, lon>>.  The haversine formula is evaluated for points of
\* one meridian, where it is the arc R * |lat2 - lat1| (in radians), and for
\* points of the equator, where it is R * |lon2 - lon1|; the positions of the
\* model lie on one meridian.
distance_between_points(point1, point2) ==
    IF point1[2] = point2[2] THEN METRES_PER_UNIT * Abs(point2[1] - point1[1])
    ELSE METRES_PER_UNIT * Abs(point2[2] - point1[2])

DEFAULT_DISTANCE_M == 10

\* gradients[i-1] of the loop, i in 1..len(altitudes)-1 (0-based indices);
\* sequences are 1-based, so altitudes[i] of the code is altitudes[i + 1]
gradient_at(altitudes, positions, i) ==
    LET elev_change == altitudes[i + 1] - altitudes[i]
        distance == IF positions # <<>> /\ i < Len(positions)
                    THEN distance_between_points(positions[i], positions[i + 1])
                    ELSE DEFAULT_DISTANCE_M
    IN  IF distance = 0 THEN Raise("ZeroDivisionError")
        ELSE Ok(Frac(elev_change * 100, distance))

compute_gradient(altitudes, positions) ==
    IF Len(altitudes) < 2 THEN Ok([i \in 1..Len(altitudes) |-> Frac(0, 1)])
    ELSE LET g == [i \in 1..(Len(altitudes) - 1) |-> gradient_at(altitudes, positions, i)]
         IN  IF \E i \in DOMAIN g : IsRaise(g[i]) THEN Raise("ZeroDivisionError")
             ELSE Ok(<<g[1].val>> \o [i \in DOMAIN g |-> g[i].val])

MaxAltitudes == 3
MaxPositions == 3

Altitudes == {98, 100, 101}
Points == {<<1, 1>>, <<2, 1>>, <<4, 1>>}
AltitudeSeries == UNION {[1..n -> Altitudes] : n \in 0..MaxAltitudes}
PositionSeries == UNION {[1..n -> Points] : n \in 0..MaxPositions}

GradientInputs ==
    /\ uin \in {[fn |-> "compute_gradient", altitudes |-> a, positions |-> p] :
                  a \in AltitudeSeries, p \in PositionSeries}
    /\ uout = None
    /\ upc = "call"

GradientCall ==
    /\ upc = "call"
    /\ uin.fn = "compute_gradient"
    /\ uout' = Some(compute_gradient(uin.altitudes, uin.positions))
    /\ upc' = "returned"
    /\ UNCHANGED <<uin, pipeVars, parseVars, syncVars, concVars, daemonVars, loopVars>>

-----------------------------------------------------------------------------
(* PowerEstimator.calculate_power and SinglespeedAnalyzer.analyze_gear_ratio *)

\* A float is a fraction; Frac(n, 0) is inf or -inf with the sign of n, and
\* Frac(0, 0) is nan.
IsFinite(x) == x.d # 0

DEFAULT_AIR_TEMP_C == 20
DEFAULT_ALTITUDE_M == 0

\* The arguments speed_ms and gradient_percent are optional values: None is
\* Python's None, which is no instance of (int, float).  The estimate is the
\* value of the physics formula at its arguments; it is kept as the tuple it
\* is computed from.  Speeds are in hundredths of m/s.
calculate_power(speed_ms, gradient_percent, air_temp_c, altitude_m) ==
    IF IsNone(speed_ms) \/ Val(speed_ms) < 0 THEN Raise("ValueError")
    ELSE IF IsNone(gradient_percent) THEN Raise("ValueError")
    ELSE Ok([src |-> "estimated", speed |-> Val(speed_ms),
             gradient |-> Val(gradient_percent),
             air_temp_c |-> air_temp_c, altitude_m |-> altitude_m])

\* calculate_power called on its own
PowerSpeeds == {None, Some(0 - 100), Some(0), Some(550)}
PowerGradients ==
    {None, Some(Frac(0, 1)), Some(Frac(5, 1)), Some(Frac(0 - 5, 1)),
     Some(Frac(1, 0)), Some(Frac(0 - 1, 0)), Some(Frac(0, 0))}
AirTemps == {0, DEFAULT_AIR_TEMP_C}
AltitudesAboveSea == {DEFAULT_ALTITUDE_M, 1500}

PowerInputs ==
    /\ \E s \in PowerSpeeds, g \in PowerGradients, t \in AirTemps, h \in AltitudesAboveSea :
          uin = [fn |-> "calculate_power", speed_ms |-> s, gradient_percent |-> g,
                 air_temp_c |-> t, altitude_m |-> h]
    /\ uout = None
    /\ upc = "called"

PowerCall ==
    /\ upc = "called"
    /\ uin.fn = "calculate_power"
    /\ uout' = Some(calculate_power(uin.speed_ms, uin.gradient_percent,
                                    uin.air_temp_c, uin.altitude_m))
    /\ upc' = "returned"
    /\ UNCHANGED <<uin, pipeVars, parseVars, syncVars, concVars, daemonVars, loopVars>>

FLAT_GRADIENT_PERCENT == 3
MIN_SPEED_CMS == 417                         \* 4.17 m/s

\* [s[i] for i in idx]
RECURSIVE Pick(_, _)
Pick(s, idx) == IF idx = <<>> THEN <<>> ELSE <<s[Head(idx)]>> \o Pick(s, Tail(idx))

\* [i for i in range(len(keep)) if keep[i]], as 1-based indices from i on
RECURSIVE IndicesFrom(_, _)
IndicesFrom(i, keep) ==
    IF i > Len(keep) THEN <<>>
    ELSE (IF keep[i] THEN <<i>> ELSE <<>>) \o IndicesFrom(i + 1, keep)

\* Exact arithmetic on the fractions Frac(n, d) with d > 0, in lowest terms
RECURSIVE GCD(_, _)
GCD(a, b) == IF b = 0 THEN a ELSE GCD(b, a % b)

Reduce(n, d) == LET g == GCD(Abs(n), d) IN Frac(n \div g, d \div g)

FAdd(a, b) ==
    LET l == (a.d \div GCD(a.d, b.d)) * b.d
    IN  Reduce(a.n * (l \div a.d) + b.n * (l \div b.d), l)

FDiv(a, b) == Reduce(a.n * b.d, a.d * b.n)

RECURSIVE FSum(_)
FSum(fs) == IF fs = <<>> THEN Frac(0, 1) ELSE FAdd(Head(fs), FSum(Tail(fs)))

CHAINRING_OPTIONS == <<38, 46>>
MIN_COG == 11
MAX_COG == 27
WHEEL_CIRCUMFERENCE_MM == 2096               \* 2.096 m
WHEEL_DIAMETER_INCHES == 27

\* the checks without the one for empty series
gear_check_lengths_only(speed_data, cadence_data, gradient_data) ==
    IF Len(speed_data) # Len(cadence_data) \/ Len(speed_data) # Len(gradient_data)
    THEN Raise("ValueError")
    ELSE Ok(TRUE)

\* the two checks that raise ValueError
gear_check_inputs(speed_data, cadence_data, gradient_data) ==
    IF speed_data = <<>> \/ cadence_data = <<>> \/ gradient_data = <<>>
    THEN Raise("ValueError")
    ELSE IF Len(speed_data) # Len(cadence_data) \/ Len(speed_data) # Len(gradient_data)
    THEN Raise("ValueError")
    ELSE Ok(TRUE)

\* the flat-terrain filter taking a gradient of exactly 3.0 for flat
gear_valid_samples_upto(speed_data, cadence_data, gradient_data) ==
    LET IsFlat(i) == Abs(gradient_data[i].n) <= FLAT_GRADIENT_PERCENT * gradient_data[i].d
        flat_indices == IndicesFrom(1, [i \in DOMAIN gradient_data |-> IsFlat(i)])
        flat_speeds == Pick(speed_data, flat_indices)
        flat_cadences == Pick(cadence_data, flat_indices)
        IsValid(i) == flat_speeds[i] > MIN_SPEED_CMS /\ flat_cadences[i] > 0
        valid_indices == IndicesFrom(1, [i \in DOMAIN flat_speeds |-> IsValid(i)])
    IN  [valid_speeds |-> Pick(flat_speeds, valid_indices),
         valid_cadences |-> Pick(flat_cadences, valid_indices)]

\* flat_indices, flat_speeds, flat_cadences, valid_indices, valid_speeds and
\* valid_cadences
gear_valid_samples(speed_data, cadence_data, gradient_data) ==
    LET IsFlat(i) == Abs(gradient_data[i].n) < FLAT_GRADIENT_PERCENT * gradient_data[i].d
        flat_indices == IndicesFrom(1, [i \in DOMAIN gradient_data |-> IsFlat(i)])
        flat_speeds == Pick(speed_data, flat_indices)
        flat_cadences == Pick(cadence_data, flat_indices)
        IsValid(i) == flat_speeds[i] > MIN_SPEED_CMS /\ flat_cadences[i] > 0
        valid_indices == IndicesFrom(1, [i \in DOMAIN flat_speeds |-> IsValid(i)])
    IN  [valid_speeds |-> Pick(flat_speeds, valid_indices),
         valid_cadences |-> Pick(flat_cadences, valid_indices)]

\* gr = (speed * 60) / (cadence * wheel_circumference_m), the speed in
\* hundredths of m/s: millimetres a minute over millimetres a pedal turn
gear_ratio_of(speed, cadence) == Reduce(speed * 60 * 10, cadence * WHEEL_CIRCUMFERENCE_MM)

\* avg_gear_ratio = sum(gear_ratios) / len(gear_ratios)
average_gear_ratio(valid) ==
    LET gear_ratios == [i \in 1..Min(Len(valid.valid_speeds), Len(valid.valid_cadences)) |->
                           gear_ratio_of(valid.valid_speeds[i], valid.valid_cadences[i])]
        total == FSum(gear_ratios)
    IN  Reduce(total.n, total.d * Len(gear_ratios))

\* the pairs (chainring, cog) in the order the two loops visit them
GEAR_CANDIDATES ==
    [k \in 1..(Len(CHAINRING_OPTIONS) * (MAX_COG - MIN_COG + 1)) |->
        [chainring |-> CHAINRING_OPTIONS[((k - 1) \div (MAX_COG - MIN_COG + 1)) + 1],
         cog |-> MIN_COG + ((k - 1) % (MAX_COG - MIN_COG + 1))]]

\* abs(chainring / cog - avg), as a fraction over cog * avg.d
gear_diff(cand, avg) == Frac(Abs(cand.chainring * avg.d - avg.n * cand.cog), cand.cog * avg.d)

\* diff < min_diff for the diffs of two candidates (the factor avg.d is common)
closer(cand, best, avg) ==
    gear_diff(cand, avg).n * best.cog < gear_diff(best, avg).n * cand.cog

\* the grid search replacing best_fit whenever diff <= min_diff: it ends with
\* the last candidate, in the order visited, whose diff is the least
best_fit_last(cands, avg) ==
    IF cands = <<>> THEN None
    ELSE LET k == CHOOSE k \in DOMAIN cands :
                     /\ \A j \in DOMAIN cands : ~closer(cands[j], cands[k], avg)
                     /\ \A j \in (k + 1)..Len(cands) : closer(cands[k], cands[j], avg)
         IN  Some(cands[k])

\* the two loops replace best_fit whenever diff < min_diff: they end with the
\* first candidate, in the order visited, whose diff is the least
best_fit(cands, avg) ==
    IF cands = <<>> THEN None
    ELSE LET k == CHOOSE k \in DOMAIN cands :
                     /\ \A j \in DOMAIN cands : ~closer(cands[j], cands[k], avg)
                     /\ \A j \in 1..(k - 1) : closer(cands[k], cands[j], avg)
         IN  Some(cands[k])

\* the estimate whose confidence is the bare 1 - min_diff / ratio
gear_estimate_unclamped(avg) ==
    LET best == best_fit(GEAR_CANDIDATES, avg) IN
    IF IsNone(best) THEN None
    ELSE LET ratio == Reduce(Val(best).chainring, Val(best).cog)
             d == gear_diff(Val(best), avg)
             rel == FDiv(Reduce(d.n, d.d), ratio)
         IN  Some([estimated_chainring_teeth |-> Val(best).chainring,
                   estimated_cassette_teeth |-> Val(best).cog,
                   gear_ratio |-> ratio,
                   gear_inches |-> Reduce(ratio.n * WHEEL_DIAMETER_INCHES, ratio.d),
                   development_meters |-> Reduce(ratio.n * WHEEL_CIRCUMFERENCE_MM, ratio.d * 1000),
                   confidence_score |-> Reduce(rel.d - rel.n, rel.d)])

\* from the grid search to the dict returned
gear_estimate(avg) ==
    LET best == best_fit(GEAR_CANDIDATES, avg) IN
    IF IsNone(best) THEN None
    ELSE LET ratio == Reduce(Val(best).chainring, Val(best).cog)
             d == gear_diff(Val(best), avg)
             rel == FDiv(Reduce(d.n, d.d), ratio)
             confidence == IF ratio.n > 0
                           THEN (IF rel.n > rel.d THEN Frac(0, 1)
                                 ELSE Reduce(rel.d - rel.n, rel.d))
                           ELSE Frac(0, 1)
         IN  Some([estimated_chainring_teeth |-> Val(best).chainring,
                   estimated_cassette_teeth |-> Val(best).cog,
                   gear_ratio |-> ratio,
                   gear_inches |-> Reduce(ratio.n * WHEEL_DIAMETER_INCHES, ratio.d),
                   development_meters |-> Reduce(ratio.n * WHEEL_CIRCUMFERENCE_MM, ratio.d * 1000),
                   confidence_score |-> confidence])

analyze_gear_ratio(speed_data, cadence_data, gradient_data) ==
    LET chk == gear_check_inputs(speed_data, cadence_data, gradient_data) IN
    IF IsRaise(chk) THEN chk
    ELSE LET valid == gear_valid_samples(speed_data, cadence_data, gradient_data) IN
         IF valid.valid_speeds = <<>> THEN Ok(None)
         ELSE Ok(gear_estimate(average_gear_ratio(valid)))

\* analyze_gear_ratio called on its own, in two steps: to the average ratio,
\* then to the estimate
MaxSamples == 2

\* speeds at, just over and well over the threshold (5.5 m/s at 80 rpm is as
\* near to 38/19 as to 46/23); coasting, slow and brisk cadences; gradients
\* just under the flat limit (2.9 percent) and on it (3.0 and -3.0 percent)
GearSpeeds == {417, 418, 550, 600}
GearCadences == {0, 20, 80}
GearGradients == {Frac(29, 10), Frac(3, 1), Frac(0 - 3, 1)}

GearInputs ==
    /\ \E n1, n2, n3 \in 0..MaxSamples :
       \E s \in [1..n1 -> GearSpeeds], c \in [1..n2 -> GearCadences],
          g \in [1..n3 -> GearGradients] :
          uin = [fn |-> "analyze_gear_ratio", speed_data |-> s, cadence_data |-> c,
                 gradient_data |-> g]
    /\ uout = None
    /\ upc = "called"

\* lines 11-40: the checks, the two filters and the average
GearFilter ==
    /\ upc = "called"
    /\ uin.fn = "analyze_gear_ratio"
    /\ LET chk == gear_check_inputs(uin.speed_data, uin.cadence_data, uin.gradient_data)
           valid == gear_valid_samples(uin.speed_data, uin.cadence_data, uin.gradient_data)
       IN  IF IsRaise(chk) THEN uout' = Some(chk) /\ upc' = "returned"
           ELSE IF valid.valid_speeds = <<>> THEN uout' = Some(Ok(None)) /\ upc' = "returned"
           ELSE /\ uout' = Some(Ok(Some([valid |-> valid,
                                         avg_gear_ratio |-> average_gear_ratio(valid)])))
                /\ upc' = "averaged"
    /\ UNCHANGED <<uin, pipeVars, parseVars, syncVars, concVars, daemonVars, loopVars>>

\* lines 42-73: the grid search and the dict returned
GearFit ==
    /\ upc = "averaged"
    /\ uout' = Some(Ok(gear_estimate(Val(Val(uout).val).avg_gear_ratio)))
    /\ upc' = "returned"
    /\ UNCHANGED <<uin, pipeVars, parseVars, syncVars, concVars, daemonVars, loopVars>>

GearNext == GearFilter \/ GearFit

-----------------------------------------------------------------------------
(* parse_fit_file *)

MaxFrames == 3

\* A decoded frame: frame_type, name and the values of its fields.
\* frame.get_value(field) is None for a field the frame carries no value of.
get_value(frame, field) ==
    IF field \in DOMAIN frame.values THEN frame.values[field] ELSE None

\* Truth value of a number or None, as `if x := ...` tests it
Truthy(o) == ~IsNone(o) /\ Val(o) # 0

\* A Python dict is a function from its keys; d.get(key, default)
EmptyDict == [k \in {} |-> None]
dict_get(d, key, default) == IF key \in DOMAIN d THEN d[key] ELSE default

\* the cycling set with running taken for a cycling sport
CYCLING_SPORTS_AND_RUNNING ==
    {Some("cycling"), Some("road_biking"), Some("mountain_biking"), Some("running")}

CYCLING_SPORTS == {Some("cycling"), Some("road_biking"), Some("mountain_biking")}

Acc0 ==
    [metrics |-> EmptyDict,
     detailed |-> [speeds |-> <<>>, cadences |-> <<>>, altitudes |-> <<>>,
                   positions |-> <<>>, gradients |-> <<>>, powers |-> <<>>,
                   timestamps |-> <<>>]]

append_if(series, o) == IF Truthy(o) THEN Append(series, Val(o)) ELSE series

\* the body of `if frame.name == 'record'`
record_frame(d, frame) ==
    LET lat == get_value(frame, "position_lat")
        lon == get_value(frame, "position_long")
    IN  [d EXCEPT
            !.timestamps = append_if(@, get_value(frame, "timestamp")),
            !.positions = IF Truthy(lat) /\ Truthy(lon)
                          THEN Append(@, <<Val(lat), Val(lon)>>) ELSE @,
            !.altitudes = append_if(@, get_value(frame, "altitude")),
            !.speeds = append_if(@, get_value(frame, "speed")),
            !.cadences = append_if(@, get_value(frame, "cadence")),
            !.powers = append_if(@, get_value(frame, "power"))]

\* the body of `elif frame.name == 'session'`
session_frame(frame) ==
    [k \in {"sport", "total_timer_time", "total_distance", "max_heart_rate",
            "avg_power", "total_calories"} |-> get_value(frame, k)]

\* one iteration in which a session frame only fills in the fields it carries
FrameStep_merging(a, frame) ==
    IF frame.frame_type = "data"
    THEN IF frame.name = "record"
         THEN [a EXCEPT !.detailed = record_frame(@, frame)]
         ELSE IF frame.name = "session"
         THEN [a EXCEPT !.metrics =
                  IF DOMAIN @ = {} THEN session_frame(frame)
                  ELSE [k \in DOMAIN @ |->
                          IF IsNone(session_frame(frame)[k]) THEN @[k]
                          ELSE session_frame(frame)[k]]]
         ELSE a
    ELSE a

\* one iteration of `for frame in fit` (the two loops of the code, over the
\* decompressed and over the plain file, have the same body)
FrameStep(a, frame) ==
    IF frame.frame_type = "data"
    THEN IF frame.name = "record"
         THEN [a EXCEPT !.detailed = record_frame(@, frame)]
         ELSE IF frame.name = "session"
         THEN [a EXCEPT !.metrics = session_frame(frame)]
         ELSE a
    ELSE a

RECURSIVE FrameLoop(_, _)
FrameLoop(a, fs) == IF fs = <<>> THEN a ELSE FrameLoop(FrameStep(a, Head(fs)), Tail(fs))

\* [calculate_power(s, g) for s, g in zip(speeds, gradients)]
estimate_powers(speeds, gradients) ==
    [i \in 1..Min(Len(speeds), Len(gradients)) |->
        calculate_power(Some(speeds[i]), Some(gradients[i]),
                        DEFAULT_AIR_TEMP_C, DEFAULT_ALTITUDE_M)]

\* What follows the loop, to the return statement: the result, or the
\* exception that leaves the try block.  The empty dict {} of gearAnalysis is
\* None, np.mean(powers) is kept as the series it is the mean of.
derive_metrics(a) ==
    LET d == a.detailed
        g == IF d.altitudes # <<>> THEN compute_gradient(d.altitudes, d.positions)
             ELSE Ok(d.gradients)
    IN  IF IsRaise(g) THEN g
        ELSE
        LET cycling == dict_get(a.metrics, "sport", None) \in CYCLING_SPORTS
            estimating == cycling /\ d.powers = <<>>
            est == estimate_powers(d.speeds, g.val)
            powers == IF estimating THEN [i \in DOMAIN est |-> est[i].val] ELSE d.powers
            m1 == IF estimating
                  THEN [k \in DOMAIN a.metrics \cup {"avg_power"} |->
                          IF k = "avg_power"
                          THEN (IF powers # <<>> THEN Some([mean |-> powers]) ELSE None)
                          ELSE a.metrics[k]]
                  ELSE a.metrics
            analysing == cycling /\ d.speeds # <<>> /\ d.cadences # <<>>
            gear == IF analysing THEN analyze_gear_ratio(d.speeds, d.cadences, g.val)
                    ELSE Ok(None)
            m2 == IF analysing
                  THEN [k \in DOMAIN m1 \cup {"gear_analysis"} |->
                          IF k = "gear_analysis" THEN gear.val ELSE m1[k]]
                  ELSE m1
        IN  IF estimating /\ \E i \in DOMAIN est : IsRaise(est[i]) THEN Raise("ValueError")
            ELSE IF IsRaise(gear) THEN gear
            ELSE Ok([activityType |-> [typeKey |-> dict_get(m2, "sport", Some("other"))],
                     summaryDTO |->
                        [duration |-> dict_get(m2, "total_timer_time", None),
                         distance |-> dict_get(m2, "total_distance", None),
                         maxHR |-> dict_get(m2, "max_heart_rate", None),
                         avgPower |-> dict_get(m2, "avg_power", None),
                         calories |-> dict_get(m2, "total_calories", None),
                         gearAnalysis |-> dict_get(m2, "gear_analysis", None)],
                     detailedMetrics |-> [d EXCEPT !.gradients = g.val, !.powers = powers]])

\* gzip.open(file).read(): the content of the wrapped file
gunzip(content) ==
    IF content.kind = "gzip" /\ content.intact THEN Ok(content.inner)
    ELSE Raise("BadGzipFile")

\* fitdecode.FitReader over a byte source: its frames, or a decoding error
fit_frames(content) ==
    IF content.kind = "fit" /\ content.decodable THEN Ok(content.frames)
    ELSE Raise("FitError")

\* the try block of parse_fit_file
parse_fit_body(f) ==
    IF ~f.readable THEN Raise("OSError")
    ELSE LET is_gzipped == Slice(f.bytes, 0, 2) = GZIP_MAGIC
             inner == IF is_gzipped THEN gunzip(f.content) ELSE Ok(f.content)
         IN  IF IsRaise(inner) THEN inner
             ELSE LET fr == fit_frames(inner.val) IN
                  IF IsRaise(fr) THEN fr
                  ELSE derive_metrics(FrameLoop(Acc0, fr.val))

\* parse_fit_file whose handler returns an empty result instead of None
parse_fit_file_partial(f) ==
    LET r == parse_fit_body(f) IN
    IF IsRaise(r) THEN Some(derive_metrics(Acc0).val) ELSE Some(r.val)

\* except Exception: return None
parse_fit_file(f) ==
    LET r == parse_fit_body(f) IN IF IsRaise(r) THEN None ELSE Some(r.val)

-----------------------------------------------------------------------------
(* Frames of the model *)

Rec(ts, lat, lon, alt, spd, cad, pow) ==
    [frame_type |-> "data", name |-> "record",
     values |-> [timestamp |-> ts, position_lat |-> lat, position_long |-> lon,
                 altitude |-> alt, speed |-> spd, cadence |-> cad, power |-> pow]]

Session(sport, time, dist, hr, pow, cal) ==
    [frame_type |-> "data", name |-> "session",
     values |-> [sport |-> sport, total_timer_time |-> time, total_distance |-> dist,
                 max_heart_rate |-> hr, avg_power |-> pow, total_calories |-> cal]]

\* Altitudes in metres, speeds in hundredths of m/s, cadences in rpm, powers
\* in watts, latitudes and longitudes in units of one meridian.
RecordFrames ==
    {Rec(Some(1), None, None, Some(100), Some(550), Some(80), None),
     Rec(Some(2), None, None, Some(101), Some(600), Some(85), None),
     Rec(Some(1), Some(1), Some(1), Some(100), Some(550), Some(80), None),
     Rec(Some(2), Some(2), Some(1), Some(101), Some(600), Some(85), None),
     Rec(Some(2), None, None, Some(100), Some(0), Some(0), None),     \* standing still
     Rec(Some(2), None, None, Some(0), Some(550), Some(80), None),    \* at sea level
     Rec(Some(2), None, None, Some(100), Some(550), None, None),      \* no cadence
     Rec(Some(2), None, None, None, Some(550), Some(80), None),       \* no altitude
     Rec(None, None, None, Some(100), None, None, None),              \* altitude alone
     Rec(Some(2), Some(1), None, Some(100), Some(550), Some(80), None),  \* latitude alone
     Rec(Some(2), Some(0), Some(1), Some(100), Some(550), Some(80), None), \* on the equator
     Rec(Some(1), None, None, Some(100), Some(550), Some(80), Some(200)),
     Rec(Some(2), None, None, Some(100), Some(550), Some(80), Some(0))}   \* not pedalling

SessionFrames ==
    {Session(Some("cycling"), Some(1800), Some(10000), None, None, None),
     Session(Some("running"), Some(1500), Some(5000), Some(170), None, Some(400)),
     Session(None, None, None, None, Some(150), None)}

OtherFrames ==
    {[frame_type |-> "data", name |-> "lap", values |-> [timestamp |-> Some(1)]],
     [frame_type |-> "definition", name |-> "record", values |-> EmptyDict]}

Frames == RecordFrames \cup SessionFrames \cup OtherFrames

-----------------------------------------------------------------------------
(* parse_fit_file on a stream of frames, one iteration of the loop at a time *)

ParseStart ==
    /\ frames = <<>>
    /\ acc = Acc0
    /\ ppc = "loop"
    /\ presult = None

\* the reader yields one more frame
ReadFrame ==
    /\ ppc = "loop"
    /\ Len(frames) < MaxFrames
    /\ \E fr \in Frames :
          /\ frames' = Append(frames, fr)
          /\ acc' = FrameStep(acc, fr)
    /\ UNCHANGED <<ppc, presult, unitVars, pipeVars, syncVars, concVars, daemonVars, loopVars>>

\* the reader raises while it decodes the next frame
ReadFails ==
    /\ ppc = "loop"
    /\ presult' = None
    /\ ppc' = "failed"
    /\ UNCHANGED <<frames, acc, unitVars, pipeVars, syncVars, concVars, daemonVars, loopVars>>

\* the stream ends: gradients, estimates, gear analysis and the return
EndOfStream ==
    /\ ppc = "loop"
    /\ LET r == derive_metrics(acc) IN
          presult' = IF IsRaise(r) THEN None ELSE Some(r.val)
    /\ ppc' = "returned"
    /\ UNCHANGED <<frames, acc, unitVars, pipeVars, syncVars, concVars, daemonVars, loopVars>>

ParseNext == ReadFrame \/ ReadFails \/ EndOfStream

-----------------------------------------------------------------------------
(* get_activity_metrics *)

\* activity.filename and os.path.exists(activity.filename); the variable file
\* is None when nothing exists at the path
has_local_file(act, fl) == ~IsNone(act.filename) /\ ~IsNone(fl)

\* the parser chosen for a detected file type ("" when none is)
parser_for(file_type) ==
    IF file_type = "fit" THEN "parse_fit_file"
    ELSE IF file_type = "xml" THEN "parse_xml_file"
    ELSE ""

\* file_type = detect_file_type(...); metrics = parse_..._file(...): the
\* value metrics has after the block, given the value m it had before
local_metrics(f, m) ==
    LET parser == parser_for(detect_file_type(f)) IN
    IF parser = "parse_fit_file" THEN parse_fit_file(f)
    ELSE IF parser = "parse_xml_file" THEN parse_xml_file(f)
    ELSE m

\* the calls the block makes, in order
local_calls(f) ==
    LET parser == parser_for(detect_file_type(f)) IN
    <<"detect_file_type">> \o (IF parser = "" THEN <<>> ELSE <<parser>>)

\* the remote test without `not metrics`
remote_wanted_any(m, cl) == ~IsNone(cl)

\* if not metrics and client
remote_wanted(m, cl) == IsNone(m) /\ ~IsNone(cl)

\* client.get_activity_details(activity_id): what the remote service answers
REMOTE_DETAILS ==
    [activityType |-> [typeKey |-> Some("cycling")],
     summaryDTO |-> [duration |-> Some(3600), distance |-> Some(20000), maxHR |-> Some(180),
                     avgPower |-> None, calories |-> Some(400)]]

get_activity_details(cl) ==
    IF Val(cl) = "details" THEN Ok(Some(REMOTE_DETAILS))
    ELSE IF Val(cl) = "nothing" THEN Ok(None)
    ELSE Raise("ConnectionError")

\* metrics.get("summaryDTO") if metrics and "summaryDTO" in metrics else metrics
returned_value(m) ==
    IF ~IsNone(m) /\ "summaryDTO" \in DOMAIN Val(m) THEN Some(Val(m).summaryDTO) ELSE m

\* if force_reprocess and activity.filename and os.path.exists(...)
ForceReprocess ==
    /\ pc = "force"
    /\ force_reprocess /\ has_local_file(activity, file)
    /\ metrics' = local_metrics(Val(file), metrics)
    /\ calls' = calls \o local_calls(Val(file))
    /\ pc' = "local"
    /\ UNCHANGED <<activity, file, client, force_reprocess, ret, unitVars, parseVars, syncVars, concVars, daemonVars, loopVars>>

NoForceReprocess ==
    /\ pc = "force"
    /\ ~(force_reprocess /\ has_local_file(activity, file))
    /\ pc' = "local"
    /\ UNCHANGED <<activity, file, client, force_reprocess, metrics, ret, calls,
                   unitVars, parseVars, syncVars, concVars, daemonVars, loopVars>>

\* if not metrics: if activity.filename and os.path.exists(...)
LocalParse ==
    /\ pc = "local"
    /\ IsNone(metrics) /\ has_local_file(activity, file)
    /\ metrics' = local_metrics(Val(file), metrics)
    /\ calls' = calls \o local_calls(Val(file))
    /\ pc' = "remote"
    /\ UNCHANGED <<activity, file, client, force_reprocess, ret, unitVars, parseVars, syncVars, concVars, daemonVars, loopVars>>

NoLocalFile ==
    /\ pc = "local"
    /\ IsNone(metrics) /\ ~has_local_file(activity, file)
    /\ pc' = "remote"
    /\ UNCHANGED <<activity, file, client, force_reprocess, metrics, ret, calls,
                   unitVars, parseVars, syncVars, concVars, daemonVars, loopVars>>

\* metrics were obtained by the forced pass: the `if not metrics` block is skipped
HaveMetrics ==
    /\ pc = "local"
    /\ ~IsNone(metrics)
    /\ pc' = "return"
    /\ UNCHANGED <<activity, file, client, force_reprocess, metrics, ret, calls,
                   unitVars, parseVars, syncVars, concVars, daemonVars, loopVars>>

\* if not metrics and client: try: metrics = client.get_activity_details(...)
RemoteFetch ==
    /\ pc = "remote"
    /\ remote_wanted(metrics, client)
    /\ LET r == get_activity_details(client) IN
          metrics' = IF IsRaise(r) THEN metrics ELSE r.val
    /\ calls' = Append(calls, "get_activity_details")
    /\ pc' = "return"
    /\ UNCHANGED <<activity, file, client, force_reprocess, ret, unitVars, parseVars, syncVars, concVars, daemonVars, loopVars>>

NoRemoteFetch ==
    /\ pc = "remote"
    /\ ~remote_wanted(metrics, client)
    /\ pc' = "return"
    /\ UNCHANGED <<activity, file, client, force_reprocess, metrics, ret, calls,
                   unitVars, parseVars, syncVars, concVars, daemonVars, loopVars>>

Return ==
    /\ pc = "return"
    /\ ret' = Some(Ok(returned_value(metrics)))
    /\ pc' = "done"
    /\ UNCHANGED <<activity, file, client, force_reprocess, metrics, calls,
                   unitVars, parseVars, syncVars, concVars, daemonVars, loopVars>>

\* Files of the model.  A binary log starts with the 14-byte FIT header, whose
\* bytes 8..11 are b'.FIT'; its gzip-compressed form starts with the 10-byte
\* gzip header: magic, method 8, flags, four bytes of modification time, two more.
FIT_HEADER == <<14, 16, 84, 8, 0, 0, 0, 0>> \o DOT_FIT \o <<0, 0>>
GzipHeader(mtime) == GZIP_MAGIC \o <<8, 0>> \o mtime \o <<0, 3>>
MTimes == {<<0, 0, 0, 0>>, <<96, 234, 40, 105>>, DOT_FIT}

PipeFrames ==
    {Session(Some("cycling"), Some(1800), Some(10000), None, None, None),
     Session(Some("running"), Some(1500), Some(5000), Some(170), None, Some(400)),
     Rec(Some(1), None, None, Some(100), Some(550), Some(80), None),
     Rec(Some(2), None, None, Some(101), Some(600), None, None),
     Rec(Some(2), None, None, None, Some(550), Some(80), None),
     Rec(Some(1), None, None, Some(100), Some(550), Some(80), Some(200))}

FitContents ==
    {[kind |-> "fit", decodable |-> TRUE, frames |-> fs] :
        fs \in UNION {[1..n -> PipeFrames] : n \in 0..MaxFrames}}
    \cup {[kind |-> "fit", decodable |-> FALSE, frames |-> <<>>]}

FitFile(c) == [readable |-> TRUE, bytes |-> FIT_HEADER, content |-> c]

\* the gzip-compressed form of a file
Gzip(f, mtime) ==
    [readable |-> f.readable, bytes |-> GzipHeader(mtime),
     content |-> [kind |-> "gzip", intact |-> TRUE, inner |-> f.content]]

\* the file a gzip-compressed file wraps
Gunzipped(f) == FitFile(f.content.inner)

Garbage == [kind |-> "garbage"]

PipeXmlFiles ==
    {f \in XmlFiles : f.content.hr = <<>> /\ IsNone(f.content.duration)
                      /\ IsNone(f.content.calories)}

PipeFiles ==
    {FitFile(c) : c \in FitContents}
    \cup {Gzip(FitFile(c), t) : c \in FitContents, t \in MTimes}
    \cup {[readable |-> TRUE, bytes |-> GzipHeader(<<0, 0, 0, 0>>),
           content |-> [kind |-> "gzip", intact |-> FALSE, inner |-> Garbage]]}
    \cup PipeXmlFiles
    \cup {[readable |-> TRUE, bytes |-> b, content |-> Garbage] :
             b \in {<<>>, <<0, 0, 0, 0>>, DOT_FIT, DOT_FIT \o <<0, 0, 0, 0>>, FIT_HEADER,
                    XML_HEADER}}
    \cup {[readable |-> FALSE, bytes |-> FIT_HEADER,
           content |-> [kind |-> "fit", decodable |-> TRUE, frames |-> <<>>]]}

Clients == {None, Some("details"), Some("nothing"), Some("raises")}

PipeInputs ==
    /\ activity \in {[activity_id |-> 1, filename |-> fn] : fn \in {None, Some("data/activity_1.fit")}}
    /\ file \in {None} \cup {Some(f) : f \in PipeFiles}
    /\ IsNone(activity.filename) => IsNone(file)
    /\ client \in Clients
    /\ force_reprocess \in BOOLEAN
    /\ pc = "force"
    /\ metrics = None
    /\ ret = None
    /\ calls = <<>>

Next ==
    \/ ForceReprocess \/ NoForceReprocess
    \/ LocalParse \/ NoLocalFile \/ HaveMetrics
    \/ RemoteFetch \/ NoRemoteFetch
    \/ Return

-----------------------------------------------------------------------------
(* sync_database *)

MaxEntries == 3

\* An entry of the list garmin_client.get_activities returns: a dict with its
\* activityId and startTimeLocal (None for a key it lacks), or a value that
\* is no dict
Entry(kind, activity_id, start_time) ==
    [kind |-> kind, activityId |-> activity_id, startTimeLocal |-> start_time]

\* Activity(activity_id=..., start_time=..., downloaded=False, ...)
Row(activity_id, start_time, downloaded) ==
    [activity_id |-> activity_id, start_time |-> start_time, downloaded |-> downloaded]

\* isinstance(activity_data, dict) and both fields truthy
is_valid_entry(e) ==
    /\ e.kind = "dict"
    /\ Truthy(e.activityId)
    /\ ~IsNone(e.startTimeLocal) /\ Val(e.startTimeLocal) # ""

Range(s) == {s[i] : i \in DOMAIN s}

\* select(Activity).filter_by(activity_id=activity_id): the rows stored and,
\* flushed by the query, the rows added in this session
existing(activity_id, stored, added) ==
    \E row \in stored \cup Range(added) : row.activity_id = activity_id

SyncEntries ==
    {Entry("str", None, None), Entry("none", None, None),
     Entry("dict", Some(1), None), Entry("dict", None, Some("t2")),
     Entry("dict", Some(1), Some("t1")), Entry("dict", Some(1), Some("t9")),
     Entry("dict", Some(2), Some("t2"))}

SyncResponses ==
    {Ok(None), Raise("ConnectionError")}
    \cup {Ok(Some(es)) : es \in UNION {[1..n -> SyncEntries] : n \in 0..MaxEntries}}

SyncInputs ==
    /\ \E r \in SyncResponses, st \in SUBSET {Row(1, "t1", TRUE), Row(2, "t2", FALSE)},
          aw \in BOOLEAN :
          /\ sync_in = Some([response |-> r, stored |-> st, awaited |-> aw])
          /\ db = st
    /\ session_new = <<>>
    /\ sidx = 0
    /\ spc = "called"

\* sync_database(client), as every caller writes it: the coroutine object is
\* created and dropped, and the body never runs
SyncCallPlain ==
    /\ spc = "called"
    /\ ~Val(sync_in).awaited
    /\ spc' = "not_run"
    /\ UNCHANGED <<sync_in, db, session_new, sidx, unitVars, pipeVars, parseVars, concVars, daemonVars, loopVars>>

\* the coroutine is awaited: get_activities and `if not activities: return`
SyncFetch ==
    /\ spc = "called"
    /\ Val(sync_in).awaited
    /\ LET r == Val(sync_in).response IN
          IF IsRaise(r) THEN spc' = "raised" /\ sidx' = sidx
          ELSE IF IsNone(r.val) \/ Val(r.val) = <<>> THEN spc' = "done" /\ sidx' = sidx
          ELSE spc' = "loop" /\ sidx' = 1
    /\ UNCHANGED <<sync_in, db, session_new, unitVars, pipeVars, parseVars, concVars, daemonVars, loopVars>>

\* one iteration of `for activity_data in activities`; the metrics update
\* that ends it sets fields of the activity and adds no row
SyncEntry ==
    /\ spc = "loop"
    /\ sidx <= Len(Val(Val(sync_in).response.val))
    /\ LET e == Val(Val(sync_in).response.val)[sidx] IN
          session_new' =
             IF is_valid_entry(e) /\ ~existing(Val(e.activityId), db, session_new)
             THEN Append(session_new, Row(Val(e.activityId), Val(e.startTimeLocal), FALSE))
             ELSE session_new
    /\ sidx' = sidx + 1
    /\ UNCHANGED <<sync_in, db, spc, unitVars, pipeVars, parseVars, concVars, daemonVars, loopVars>>

\* await session.commit()
SyncCommit ==
    /\ spc = "loop"
    /\ sidx > Len(Val(Val(sync_in).response.val))
    /\ db' = db \cup Range(session_new)
    /\ spc' = "done"
    /\ UNCHANGED <<sync_in, session_new, sidx, unitVars, pipeVars, parseVars, concVars, daemonVars, loopVars>>

SyncNext == SyncCallPlain \/ SyncFetch \/ SyncEntry \/ SyncCommit

-----------------------------------------------------------------------------
(* Two invocations of get_activity_metrics on local binary logs, without a
   client, their steps interleaved *)

MaxConcFrames == 2

Invocations == {1, 2}

ConcFrames ==
    {Session(Some("cycling"), Some(1800), Some(10000), None, None, None),
     Rec(Some(1), None, None, Some(100), Some(550), Some(80), None),
     Rec(Some(2), None, None, Some(101), Some(600), None, None)}

ConcLogs == UNION {[1..n -> ConcFrames] : n \in 0..MaxConcFrames}

\* the file invocation i is called on
ConcFile(log) == FitFile([kind |-> "fit", decodable |-> TRUE, frames |-> log])

\* the accumulators of every invocation are those of the first
accumulators_shared(st, i) == st[1].acc

\* metrics = {} and detailed_metrics = {...} are created by each call of
\* parse_fit_file: invocation i reads and writes its own
accumulators(st, i) == st[i].acc

\* running: the invocation has taken a step and has not returned
Running(st, i) == (st[i].pos > 1 \/ st[i].pc = "return") /\ st[i].pc # "done"

ConcStart ==
    \E l1, l2 \in ConcLogs :
        inv = [i \in Invocations |->
                 [log |-> IF i = 1 THEN l1 ELSE l2, pos |-> 1, acc |-> Acc0,
                  metrics |-> None, pc |-> "loop", result |-> None,
                  interleaved |-> FALSE]]

\* invocation i: one iteration of `for frame in fit`
ConcReadFrame(i) ==
    /\ inv[i].pc = "loop"
    /\ inv[i].pos <= Len(inv[i].log)
    /\ inv' = [inv EXCEPT ![i].acc = FrameStep(accumulators(inv, i), inv[i].log[inv[i].pos]),
                          ![i].pos = @ + 1,
                          ![i].interleaved = @ \/ \E j \in Invocations \ {i} : Running(inv, j)]
    /\ UNCHANGED <<unitVars, pipeVars, parseVars, syncVars, daemonVars, loopVars>>

\* invocation i: the stream ends and parse_fit_file returns
ConcEndOfStream(i) ==
    /\ inv[i].pc = "loop"
    /\ inv[i].pos > Len(inv[i].log)
    /\ LET r == derive_metrics(accumulators(inv, i)) IN
       inv' = [inv EXCEPT ![i].metrics = IF IsRaise(r) THEN None ELSE Some(r.val),
                          ![i].pc = "return",
                          ![i].interleaved = @ \/ \E j \in Invocations \ {i} : Running(inv, j)]
    /\ UNCHANGED <<unitVars, pipeVars, parseVars, syncVars, daemonVars, loopVars>>

\* invocation i: get_activity_metrics returns
ConcReturn(i) ==
    /\ inv[i].pc = "return"
    /\ inv' = [inv EXCEPT ![i].result = Some(returned_value(inv[i].metrics)),
                          ![i].pc = "done",
                          ![i].interleaved = @ \/ \E j \in Invocations \ {i} : Running(inv, j)]
    /\ UNCHANGED <<unitVars, pipeVars, parseVars, syncVars, daemonVars, loopVars>>

ConcNext ==
    \E i \in Invocations : ConcReadFrame(i) \/ ConcEndOfStream(i) \/ ConcReturn(i)

-----------------------------------------------------------------------------
(* GarminSyncDaemon: the thread running start, the worker thread running
   _process_tasks, the scheduler's jobs, and the process pool *)

PRIORITY_HIGH == 1
PRIORITY_MEDIUM == 2
PRIORITY_LOW == 3

\* Tasks put on the queue over one run of the daemon
MaxTasks == 3

\* The entry _enqueue_sync and _enqueue_reprocess put: (priority, (task_type, None))
Task(priority, task_type) == [priority |-> priority, task_type |-> task_type]

\* A queue that hands its entries out in the order they were put
queue_get_fifo(q) == CHOOSE k \in 1..Len(q) : \A j \in 1..Len(q) : k <= j

\* PriorityQueue.get: the position of the entry handed out, the least one;
\* entries that compare equal are the same tuple
queue_get(q) ==
    CHOOSE k \in 1..Len(q) :
        \A j \in 1..Len(q) :
            \/ q[k].priority < q[j].priority
            \/ q[k].priority = q[j].priority /\ k <= j

RemoveAt(q, k) == SubSeq(q, 1, k - 1) \o SubSeq(q, k + 1, Len(q))

\* Tasks put so far: queued, or taken by the worker
TasksPut == Len(task_queue) + Len(executed)

\* The log of the tasks the worker took: the task, the queue it was taken
\* from, and whether its function has finished in the pool
Taken(task, queued) == [task_type |-> task.task_type, queued |-> queued, finished |-> FALSE]

\* __init__: running is False, the queue is empty, the worker thread is
\* created and not started
DaemonInit ==
    /\ running = FALSE
    /\ mpc = "start"
    /\ wpc = "created"
    /\ task_queue = <<>>
    /\ current = None
    /\ executed = <<>>
    /\ jobs = {}
    /\ scheduler_running = FALSE

\* start, up to self.worker_thread.start(): the worker begins _process_tasks
StartWorker ==
    /\ mpc = "start"
    /\ mpc' = "worker_started"
    /\ wpc' = "loop"
    /\ UNCHANGED <<running, task_queue, current, executed, jobs, scheduler_running,
                   unitVars, pipeVars, parseVars, syncVars, concVars, loopVars>>

\* start: load_config, the two jobs when the configuration is enabled,
\* scheduler.start()
StartScheduler ==
    /\ mpc = "worker_started"
    /\ \E enabled \in BOOLEAN :
        jobs' = IF enabled THEN {"sync", "reprocess"} ELSE {}
    /\ scheduler_running' = TRUE
    /\ mpc' = "scheduled"
    /\ UNCHANGED <<running, wpc, task_queue, current, executed,
                   unitVars, pipeVars, parseVars, syncVars, concVars, loopVars>>

\* start: self.running = True, then the status update, the web UI, the signal
\* handlers and the loop "while self.running: time.sleep(1)"
SetRunning ==
    /\ mpc = "scheduled"
    /\ running' = TRUE
    /\ mpc' = "serving"
    /\ UNCHANGED <<wpc, task_queue, current, executed, jobs, scheduler_running,
                   unitVars, pipeVars, parseVars, syncVars, concVars, loopVars>>

\* start: an exception raised by load_config is caught; the handler calls
\* update_daemon_status("error") and then stop(), which it reaches only when
\* the status update does not raise in turn. (load_config and
\* update_daemon_status both obtain their session from get_session, a name
\* daemon.py does not import at module level.)
StartFailed ==
    /\ mpc = "worker_started"
    /\ \E reached_stop \in BOOLEAN :
        mpc' = IF reached_stop THEN "stopped" ELSE "failed"
    /\ scheduler_running' = FALSE
    /\ running' = FALSE
    /\ UNCHANGED <<wpc, task_queue, current, executed, jobs,
                   unitVars, pipeVars, parseVars, syncVars, concVars, loopVars>>

\* signal_handler -> stop(): the scheduler is shut down, running is False
stop ==
    /\ mpc = "serving"
    /\ scheduler_running' = FALSE
    /\ running' = FALSE
    /\ mpc' = "stopped"
    /\ UNCHANGED <<wpc, task_queue, current, executed, jobs,
                   unitVars, pipeVars, parseVars, syncVars, concVars, loopVars>>

\* shutdown_event of the web UI: running is False, the scheduler is left alone
shutdown_event ==
    /\ mpc = "serving"
    /\ running' = FALSE
    /\ mpc' = "stopped"
    /\ UNCHANGED <<wpc, task_queue, current, executed, jobs, scheduler_running,
                   unitVars, pipeVars, parseVars, syncVars, concVars, loopVars>>

\* A job of the running scheduler fires
_enqueue_sync ==
    /\ scheduler_running /\ "sync" \in jobs
    /\ TasksPut < MaxTasks
    /\ task_queue' = Append(task_queue, Task(PRIORITY_MEDIUM, "sync"))
    /\ UNCHANGED <<running, mpc, wpc, current, executed, jobs, scheduler_running,
                   unitVars, pipeVars, parseVars, syncVars, concVars, loopVars>>

_enqueue_reprocess ==
    /\ scheduler_running /\ "reprocess" \in jobs
    /\ TasksPut < MaxTasks
    /\ task_queue' = Append(task_queue, Task(PRIORITY_LOW, "reprocess"))
    /\ UNCHANGED <<running, mpc, wpc, current, executed, jobs, scheduler_running,
                   unitVars, pipeVars, parseVars, syncVars, concVars, loopVars>>

\* _process_tasks: the test of "while self.running"; when it fails the
\* thread logs "Task worker stopped" and ends
WorkerLoopTest ==
    /\ wpc = "loop"
    /\ wpc' = IF running THEN "get" ELSE "stopped"
    /\ UNCHANGED <<running, mpc, task_queue, current, executed, jobs, scheduler_running,
                   unitVars, pipeVars, parseVars, syncVars, concVars, loopVars>>

\* _process_tasks: task_queue.get(timeout=1) hands out an entry
WorkerGet ==
    /\ wpc = "get"
    /\ task_queue # <<>>
    /\ LET k == queue_get(task_queue) IN
        /\ current' = Some(task_queue[k])
        /\ task_queue' = RemoveAt(task_queue, k)
    /\ executed' = Append(executed, Taken(task_queue[queue_get(task_queue)], task_queue))
    /\ wpc' = "submitted"
    /\ UNCHANGED <<running, mpc, jobs, scheduler_running,
                   unitVars, pipeVars, parseVars, syncVars, concVars, loopVars>>

\* _process_tasks: the get times out on an empty queue; queue.Empty is caught
\* by "except Exception" and the loop goes round
WorkerGetTimeout ==
    /\ wpc = "get"
    /\ task_queue = <<>>
    /\ wpc' = "loop"
    /\ UNCHANGED <<running, mpc, task_queue, current, executed, jobs, scheduler_running,
                   unitVars, pipeVars, parseVars, syncVars, concVars, loopVars>>

\* _execute_in_process_pool: future.result() returns or raises once the
\* function has finished in the pool; then task_done() and the next round
WorkerResult ==
    /\ wpc = "submitted"
    /\ executed' = [executed EXCEPT ![Len(executed)].finished = TRUE]
    /\ current' = None
    /\ wpc' = "loop"
    /\ UNCHANGED <<running, mpc, task_queue, jobs, scheduler_running,
                   unitVars, pipeVars, parseVars, syncVars, concVars, loopVars>>

DaemonNext ==
    \/ StartWorker \/ StartScheduler \/ SetRunning \/ StartFailed
    \/ stop \/ shutdown_event
    \/ _enqueue_sync \/ _enqueue_reprocess
    \/ WorkerLoopTest \/ WorkerGet \/ WorkerGetTimeout \/ WorkerResult

-----------------------------------------------------------------------------

(* GarminClient.download_activity_fit *)

\* What authenticate() does when self.client is not set: it sets the client,
\* or raises ValueError (no credentials, authentication refused),
\* ConnectionError, or RuntimeError (any other exception of the login)
AuthenticateOutcomes ==
    {Ok("client")} \cup {Raise(k) : k \in {"ValueError", "ConnectionError", "RuntimeError"}}

\* The three entries of methods_to_try, in the order of the list: no format,
\* dl_fmt="FIT", dl_fmt="tcx"
MethodNumbers == 1..3

\* What calling method i does: it returns bytes (here the one byte i), returns
\* empty data, or raises an exception of one of the three except clauses
MethodOutcomes(i) ==
    {Ok(<<i>>), Ok(<<>>)}
        \cup {Raise(k) : k \in {"GarminConnectConnectionError", "TimeoutError", "KeyError"}}

\* A check that takes any returned value for data
fit_data_returned(o) == o.ok

\* "if fit_data:" on what a method returned
fit_data_truthy(o) == o.ok /\ o.val # <<>>

\* The state of one call: the client, what the environment will answer, and
\* the locals of the loop (methods invoked so far, last_exception)
DownloadInputs ==
    /\ \E authenticated \in BOOLEAN, auth \in AuthenticateOutcomes :
       \E m1 \in MethodOutcomes(1), m2 \in MethodOutcomes(2), m3 \in MethodOutcomes(3) :
        uin = Some([authenticated |-> authenticated, authenticate |-> auth,
                    methods |-> <<m1, m2, m3>>])
    /\ uout = Some([invoked |-> <<>>, last_exception |-> None, result |-> None])
    /\ upc = "client"

\* "if not self.client: self.authenticate()"
DownloadAuthenticate ==
    /\ upc = "client"
    /\ LET a == Val(uin) IN
        IF a.authenticated \/ a.authenticate.ok
        THEN upc' = "methods" /\ uout' = uout
        ELSE /\ upc' = "raised"
             /\ uout' = Some([Val(uout) EXCEPT !.result = Some(a.authenticate)])
    /\ UNCHANGED <<uin, pipeVars, parseVars, syncVars, concVars, daemonVars, loopVars>>

\* One round of "for i, method in enumerate(methods_to_try, 1)"
DownloadTryMethod ==
    /\ upc = "methods"
    /\ Len(Val(uout).invoked) < 3
    /\ LET i == Len(Val(uout).invoked) + 1
           o == Val(uin).methods[i]
           l == Val(uout)
       IN  IF fit_data_truthy(o)
           THEN /\ uout' = Some([l EXCEPT !.invoked = Append(@, i), !.result = Some(Ok(o.val))])
                /\ upc' = "returned"
           ELSE /\ uout' = Some([l EXCEPT !.invoked = Append(@, i),
                                          !.last_exception = IF o.ok THEN @ ELSE Some(o.val)])
                /\ upc' = "methods"
    /\ UNCHANGED <<uin, pipeVars, parseVars, syncVars, concVars, daemonVars, loopVars>>

\* After the loop: RuntimeError, chained to last_exception when there is one
DownloadAllFailed ==
    /\ upc = "methods"
    /\ Len(Val(uout).invoked) = 3
    /\ uout' = Some([Val(uout) EXCEPT !.result = Some(Raise("RuntimeError"))])
    /\ upc' = "raised"
    /\ UNCHANGED <<uin, pipeVars, parseVars, syncVars, concVars, daemonVars, loopVars>>

DownloadNext == DownloadAuthenticate \/ DownloadTryMethod \/ DownloadAllFailed

-----------------------------------------------------------------------------

(* The download loops over the activities of a session: cli download,
   web trigger_sync and GarminSyncDaemon.sync_and_download *)

\* Rows of the activities table in one run
MaxActivities == 2
ActivityIds == 1..MaxActivities

\* start_time of a row, a string with the characters the file name replaces
Digit == <<"1", "2", "3", "4", "5", "6", "7", "8", "9">>
StartTime(id) == <<"2", "0", "2", "4", "-", "0", "1", "-", "0", Digit[id], " ", "0", "7", ":", "3", "0">>

\* start_time.replace(":", "-").replace(" ", "_")
safe_timestamp(s) ==
    [k \in 1..Len(s) |-> IF s[k] = ":" THEN "-" ELSE IF s[k] = " " THEN "_" ELSE s[k]]

\* data_dir / f"activity_{activity_id}_{timestamp}.fit"
filepath(activity_id, start_time) ==
    [dir |-> "data", activity_id |-> activity_id, timestamp |-> safe_timestamp(start_time)]

\* A row of Activity that sync_database added: not downloaded, no metrics
NewRow(id) ==
    [activity_id |-> id, start_time |-> StartTime(id), filename |-> None,
     downloaded |-> FALSE, reprocessed |-> FALSE, last_sync |-> None,
     activity_type |-> None, duration |-> None, distance |-> None,
     max_heart_rate |-> None, avg_heart_rate |-> None, avg_power |-> None,
     calories |-> None]

\* A row an earlier run of a download loop committed
DownloadedRow(id) ==
    [NewRow(id) EXCEPT !.filename = Some(filepath(id, StartTime(id))), !.downloaded = TRUE]

\* An update that marks the row without naming the file
mark_downloaded_only(row, path, loop) == [row EXCEPT !.downloaded = TRUE]

\* The assignments after the file is written: filename and downloaded, and
\* last_sync in the web and daemon loops
mark_downloaded(row, path, loop) ==
    [row EXCEPT !.filename = Some(path), !.downloaded = TRUE,
                !.last_sync = IF loop = "cli" THEN @ ELSE Some("now")]

\* The keys of a summary the loops read, and a value for each
SummaryKeys == {"duration", "distance", "maxHR", "avgPower", "calories"}
SummaryValue(k) ==
    CASE k = "duration" -> Frac(7201, 2)
      [] k = "distance" -> Frac(10000, 1)
      [] k = "maxHR" -> Frac(150, 1)
      [] k = "avgHR" -> Frac(120, 1)
      [] k = "avgPower" -> Frac(401, 2)
      [] k = "calories" -> Frac(500, 1)

\* A summary with every key set, with one key null, with one key absent,
\* with an activityType entry
FullSummary == [k \in SummaryKeys |-> Some(SummaryValue(k))]
WithNull(d, key) == [d EXCEPT ![key] = None]
Without(d, key) == [k \in DOMAIN d \ {key} |-> d[k]]
With(d, key, v) == [k \in DOMAIN d \cup {key} |-> IF k = key THEN v ELSE d[k]]

\* What get_activity_metrics(activity, client) returns after a download:
\* None, the summaryDTO of parse_fit_file or parse_xml_file (no activityType
\* key; a field the file lacks is null), or what the API returned
MetricsAfterDownload ==
    {None, Some(EmptyDict), Some(FullSummary)}
        \cup {Some(WithNull(FullSummary, k)) : k \in SummaryKeys}
        \cup {Some(Without(FullSummary, k)) : k \in SummaryKeys}
        \cup {Some(With(FullSummary, "activityType", Some([typeKey |-> Some("cycling")]))),
              Some(With(FullSummary, "activityType", None))}

\* int(float(x)) and float(x) on a number; on None float raises TypeError
int_float(x) == IF x.n >= 0 THEN x.n \div x.d ELSE 0 - ((0 - x.n) \div x.d)

\* metrics.get("activityType", {}).get("typeKey"): AttributeError on a null
\* activityType
type_key(m) ==
    IF "activityType" \notin DOMAIN m THEN Ok(None)
    ELSE IF IsNone(m["activityType"]) THEN Raise("AttributeError")
    ELSE Ok(Val(m["activityType"]).typeKey)

\* metrics.get(key, 0)
get_or_zero(m, key) == dict_get(m, key, Some(Frac(0, 1)))

\* "if metrics:" of sync_and_download and the five conversions under it
update_from_metrics(row, returned) ==
    IF IsNone(returned) \/ Val(returned) = EmptyDict THEN Ok(row)
    ELSE LET m == Val(returned) IN
         IF IsRaise(type_key(m)) THEN type_key(m)
         ELSE IF \E k \in SummaryKeys : IsNone(get_or_zero(m, k)) THEN Raise("TypeError")
         ELSE Ok([row EXCEPT
                    !.activity_type = type_key(m).val,
                    !.duration = Some(int_float(Val(get_or_zero(m, "duration")))),
                    !.distance = Some(Val(get_or_zero(m, "distance"))),
                    !.max_heart_rate = Some(int_float(Val(get_or_zero(m, "maxHR")))),
                    !.avg_power = Some(Val(get_or_zero(m, "avgPower"))),
                    !.calories = Some(int_float(Val(get_or_zero(m, "calories"))))])

\* The three loops
DownloadLoops == {"cli", "web", "daemon"}

\* The log entry of one iteration
Iteration(id, fit_data, written) ==
    [activity_id |-> id, fit_data |-> fit_data, written |-> written,
     metrics |-> None, outcome |-> "pending"]

\* The activity of the current iteration
CurrentId == worklist[widx]

\* The end of an iteration: the next one, or the end of the loop
NextIteration ==
    /\ widx' = widx + 1
    /\ lpc' = IF widx < Len(worklist) THEN "download" ELSE "done"

\* The sequence of the members of a set of numbers, ascending
Ascending(S) ==
    [k \in 1..Cardinality(S) |-> CHOOSE x \in S : Cardinality({y \in S : y < x}) = k - 1]

\* The rows before a loop runs: some downloaded by an earlier run, the session
\* created; the call of sync_database that precedes the query is never awaited
DownloadLoopStart ==
    /\ \E done \in SUBSET ActivityIds :
        table = [id \in ActivityIds |-> IF id \in done THEN DownloadedRow(id) ELSE NewRow(id)]
    /\ objs = table
    /\ disk = {Val(table[id].filename) : id \in {i \in ActivityIds : table[i].downloaded}}
    /\ \E loop \in DownloadLoops : env = Some([loop |-> loop])
    /\ worklist = <<>>
    /\ widx = 0
    /\ lpc = "query"
    /\ trace = <<>>

\* session.query(Activity).filter_by(downloaded=False).all()
QueryMissing ==
    /\ lpc = "query"
    /\ worklist' = Ascending({id \in ActivityIds : ~table[id].downloaded})
    /\ widx' = 1
    /\ lpc' = IF \A id \in ActivityIds : table[id].downloaded THEN "done" ELSE "download"
    /\ UNCHANGED <<table, objs, env, disk, trace,
                   unitVars, pipeVars, parseVars, syncVars, concVars, daemonVars>>

\* download_activity_fit or the write raises: the except clause rolls back
DownloadFails ==
    /\ lpc = "download"
    /\ \E fit_data \in BOOLEAN :
        /\ trace' = Append(trace, [Iteration(CurrentId, fit_data, FALSE) EXCEPT !.outcome = "rolled_back"])
    /\ objs' = table
    /\ NextIteration
    /\ UNCHANGED <<table, worklist, env, disk,
                   unitVars, pipeVars, parseVars, syncVars, concVars, daemonVars>>

\* download_activity_fit returns, the file is written, the row is updated
DownloadAndWrite ==
    /\ lpc = "download"
    /\ LET row == objs[CurrentId]
           path == filepath(row.activity_id, row.start_time)
       IN  /\ disk' = disk \cup {path}
           /\ objs' = [objs EXCEPT ![CurrentId] = mark_downloaded(row, path, Val(env).loop)]
    /\ trace' = Append(trace, Iteration(CurrentId, TRUE, TRUE))
    /\ lpc' = IF Val(env).loop = "daemon" THEN "metrics" ELSE "commit"
    /\ UNCHANGED <<table, worklist, widx, env,
                   unitVars, pipeVars, parseVars, syncVars, concVars, daemonVars>>

\* sync_and_download: get_activity_metrics and the update under "if metrics:";
\* an exception of the update reaches the except clause, which rolls back
GetMetricsAfterDownload ==
    /\ lpc = "metrics"
    /\ \E m \in MetricsAfterDownload :
        LET r == update_from_metrics(objs[CurrentId], m) IN
        IF r.ok
        THEN /\ objs' = [objs EXCEPT ![CurrentId] = r.val]
             /\ trace' = [trace EXCEPT ![Len(trace)].metrics = Some(m)]
             /\ lpc' = "commit"
             /\ widx' = widx
        ELSE /\ objs' = table
             /\ trace' = [trace EXCEPT ![Len(trace)].metrics = Some(m),
                                       ![Len(trace)].outcome = "rolled_back"]
             /\ NextIteration
    /\ UNCHANGED <<table, worklist, env, disk,
                   unitVars, pipeVars, parseVars, syncVars, concVars, daemonVars>>

\* session.commit()
CommitDownload ==
    /\ lpc = "commit"
    /\ table' = objs
    /\ trace' = [trace EXCEPT ![Len(trace)].outcome = "committed"]
    /\ NextIteration
    /\ UNCHANGED <<objs, worklist, env, disk,
                   unitVars, pipeVars, parseVars, syncVars, concVars, daemonVars>>

DownloadLoopNext ==
    \/ QueryMissing \/ DownloadFails \/ DownloadAndWrite
    \/ GetMetricsAfterDownload \/ CommitDownload

-----------------------------------------------------------------------------

(* The reprocess loops: GarminSyncDaemon.reprocess_activities and cli reprocess *)

\* Runs of a reprocess loop, one after the other
MaxRuns == 2

\* The metric columns of Activity the loops assign
MetricFields ==
    {"activity_type", "duration", "distance", "max_heart_rate", "avg_heart_rate",
     "avg_power", "calories"}

\* A row with every metric column stored
StoredRow(id, downloaded, reprocessed) ==
    [NewRow(id) EXCEPT
        !.downloaded = downloaded, !.reprocessed = reprocessed,
        !.filename = IF downloaded THEN Some(filepath(id, StartTime(id))) ELSE None,
        !.activity_type = Some("running"), !.duration = Some(1800),
        !.distance = Some(Frac(5000, 1)), !.max_heart_rate = Some(170),
        !.avg_heart_rate = Some(140), !.avg_power = Some(Frac(180, 1)),
        !.calories = Some(300)]

\* What get_activity_metrics(activity, client=None, force_reprocess=True)
\* returns: None, or the summaryDTO of the parsed file, which has no
\* activityType and no avgHR key, and null or 0 for a field the file lacks
MetricsOfReprocess ==
    {None, Some(FullSummary)}
        \cup {Some(WithNull(FullSummary, k)) : k \in SummaryKeys}
        \cup {Some(With(FullSummary, k, Some(Frac(0, 1)))) : k \in SummaryKeys}

\* "activity.filename and os.path.exists(activity.filename)": without the
\* file, and without a client, get_activity_metrics returns None
file_exists(row) == ~IsNone(row.filename) /\ Val(row.filename) \in disk

\* "if metrics.get(key)" on a number or null
metric_truthy(v) == ~IsNone(v) /\ Val(v).n # 0

\* "<conversion>(metrics.get(key, 0)) if metrics.get(key) else activity.<column>"
converted_or_kept(m, key, kept, as_int) ==
    LET v == dict_get(m, key, None) IN
    IF metric_truthy(v) THEN Some(IF as_int THEN int_float(Val(v)) ELSE Val(v)) ELSE kept

\* "if metrics:" and the seven assignments under it, then reprocessed = True
reprocess_update(row, returned) ==
    LET updated ==
            IF IsNone(returned) \/ Val(returned) = EmptyDict THEN row
            ELSE LET m == Val(returned) IN
                 [row EXCEPT
                    !.activity_type = type_key(m).val,
                    !.duration = converted_or_kept(m, "duration", @, TRUE),
                    !.distance = converted_or_kept(m, "distance", @, FALSE),
                    !.max_heart_rate = converted_or_kept(m, "maxHR", @, TRUE),
                    !.avg_heart_rate = converted_or_kept(m, "avgHR", @, TRUE),
                    !.avg_power = converted_or_kept(m, "avgPower", @, FALSE),
                    !.calories = converted_or_kept(m, "calories", @, TRUE)]
    IN  [updated EXCEPT !.reprocessed = TRUE]

\* The loops: the daemon's job, and cli reprocess --all, --missing, --activity-id
ReprocessLoops == {"daemon", "cli_all", "cli_missing", "cli_activity_id"}

\* A query that leaves out the test of reprocessed
selected_if_downloaded(row, loop, activity_id) == row.downloaded

\* The filter of the loop's query
selected(row, loop, activity_id) ==
    CASE loop = "daemon" -> row.downloaded /\ ~row.reprocessed
      [] loop = "cli_all" -> row.downloaded
      [] loop = "cli_missing" -> ~row.reprocessed
      [] loop = "cli_activity_id" -> row.activity_id = activity_id

\* The end of an iteration of a reprocess loop
NextReprocess ==
    /\ widx' = widx + 1
    /\ lpc' = IF widx < Len(worklist) THEN "reprocess" ELSE "done"

\* The rows before the first run, and the loop that runs
ReprocessStart ==
    /\ \E downloaded \in SUBSET ActivityIds, reprocessed \in SUBSET ActivityIds :
        table = [id \in ActivityIds |-> StoredRow(id, id \in downloaded, id \in reprocessed)]
    /\ objs = table
    /\ disk = {Val(table[id].filename) : id \in {i \in ActivityIds : table[i].downloaded}}
    /\ \E loop \in ReprocessLoops, id \in ActivityIds :
        /\ loop # "cli_activity_id" => id = 1
        /\ env = Some([loop |-> loop, activity_id |-> id, run |-> 1])
    /\ worklist = <<>>
    /\ widx = 0
    /\ lpc = "query"
    /\ trace = <<>>

\* The query of the run, and the return when it finds nothing
QueryReprocess ==
    /\ lpc = "query"
    /\ LET found == {id \in ActivityIds : selected(table[id], Val(env).loop, Val(env).activity_id)}
       IN  /\ worklist' = Ascending(found)
           /\ lpc' = IF found = {} THEN "done" ELSE "reprocess"
    /\ widx' = 1
    /\ UNCHANGED <<table, objs, env, disk, trace,
                   unitVars, pipeVars, parseVars, syncVars, concVars, daemonVars>>

\* get_activity_metrics, the assignments, reprocessed = True
ReprocessActivity ==
    /\ lpc = "reprocess"
    /\ \E m \in MetricsOfReprocess :
        /\ file_exists(objs[CurrentId]) \/ IsNone(m)
        /\ objs' = [objs EXCEPT ![CurrentId] = reprocess_update(@, m)]
    /\ trace' = Append(trace, [run |-> Val(env).run, activity_id |-> CurrentId, outcome |-> "pending"])
    /\ lpc' = "commit"
    /\ UNCHANGED <<table, worklist, widx, env, disk,
                   unitVars, pipeVars, parseVars, syncVars, concVars, daemonVars>>

\* session.commit()
CommitReprocess ==
    /\ lpc = "commit"
    /\ table' = objs
    /\ trace' = [trace EXCEPT ![Len(trace)].outcome = "committed"]
    /\ NextReprocess
    /\ UNCHANGED <<objs, worklist, env, disk,
                   unitVars, pipeVars, parseVars, syncVars, concVars, daemonVars>>

\* session.commit() raises: the daemon's except clause rolls back and the loop
\* goes on; the cli loop has no except clause and the command ends
CommitReprocessRaises ==
    /\ lpc = "commit"
    /\ objs' = table
    /\ IF Val(env).loop = "daemon"
       THEN /\ trace' = [trace EXCEPT ![Len(trace)].outcome = "rolled_back"]
            /\ NextReprocess
       ELSE /\ trace' = [trace EXCEPT ![Len(trace)].outcome = "raised"]
            /\ lpc' = "done"
            /\ widx' = widx
    /\ UNCHANGED <<table, worklist, env, disk,
                   unitVars, pipeVars, parseVars, syncVars, concVars, daemonVars>>

\* The job or the command runs again, with a new session
NextRun ==
    /\ lpc = "done"
    /\ Val(env).run < MaxRuns
    /\ env' = Some([Val(env) EXCEPT !.run = @ + 1])
    /\ objs' = table
    /\ worklist' = <<>>
    /\ widx' = 0
    /\ lpc' = "query"
    /\ UNCHANGED <<table, disk, trace,
                   unitVars, pipeVars, parseVars, syncVars, concVars, daemonVars>>

ReprocessNext ==
    \/ QueryReprocess \/ ReprocessActivity
    \/ CommitReprocess \/ CommitReprocessRaises \/ NextRun

-----------------------------------------------------------------------------

(* Idle values of the variable groups a specification does not use *)

UnitIdle == uin = None /\ uout = None /\ upc = "idle"
PipeIdle ==
    /\ activity = None /\ file = None /\ client = None /\ force_reprocess = FALSE
    /\ pc = "idle" /\ metrics = None /\ ret = None /\ calls = <<>>
ParseIdle == frames = <<>> /\ acc = None /\ ppc = "idle" /\ presult = None
SyncIdle ==
    /\ sync_in = None /\ db = {} /\ session_new = <<>> /\ sidx = 0 /\ spc = "idle"
ConcIdle == inv = <<>>
DaemonIdle ==
    /\ running = FALSE /\ mpc = "idle" /\ wpc = "idle" /\ task_queue = <<>>
    /\ current = None /\ executed = <<>> /\ jobs = {} /\ scheduler_running = FALSE
LoopIdle ==
    /\ table = <<>> /\ objs = <<>> /\ worklist = <<>> /\ widx = 0 /\ lpc = "idle"
    /\ env = None /\ disk = {} /\ trace = <<>>

Init == PipeInputs /\ UnitIdle /\ ParseIdle /\ SyncIdle /\ ConcIdle /\ DaemonIdle /\ LoopIdle
Spec == Init /\ [][Next]_vars

InitDetect == DetectInputs /\ PipeIdle /\ ParseIdle /\ SyncIdle /\ ConcIdle /\ DaemonIdle /\ LoopIdle
SpecDetect == InitDetect /\ [][DetectCall]_vars

InitParse == ParseStart /\ UnitIdle /\ PipeIdle /\ SyncIdle /\ ConcIdle /\ DaemonIdle /\ LoopIdle
SpecParse == InitParse /\ [][ParseNext]_vars

InitGradient == GradientInputs /\ PipeIdle /\ ParseIdle /\ SyncIdle /\ ConcIdle /\ DaemonIdle /\ LoopIdle
SpecGradient == InitGradient /\ [][GradientCall]_vars

InitXml == XmlInputs /\ PipeIdle /\ ParseIdle /\ SyncIdle /\ ConcIdle /\ DaemonIdle /\ LoopIdle
SpecXml == InitXml /\ [][XmlCall]_vars

InitPower == PowerInputs /\ PipeIdle /\ ParseIdle /\ SyncIdle /\ ConcIdle /\ DaemonIdle /\ LoopIdle
SpecPower == InitPower /\ [][PowerCall]_vars

InitSync == SyncInputs /\ UnitIdle /\ PipeIdle /\ ParseIdle /\ ConcIdle /\ DaemonIdle /\ LoopIdle
SpecSync == InitSync /\ [][SyncNext]_vars

InitConc == ConcStart /\ UnitIdle /\ PipeIdle /\ ParseIdle /\ SyncIdle /\ DaemonIdle /\ LoopIdle
SpecConc == InitConc /\ [][ConcNext]_vars

InitGear == GearInputs /\ PipeIdle /\ ParseIdle /\ SyncIdle /\ ConcIdle /\ DaemonIdle /\ LoopIdle
SpecGear == InitGear /\ [][GearNext]_vars

InitDownloadFit == DownloadInputs /\ PipeIdle /\ ParseIdle /\ SyncIdle /\ ConcIdle /\ DaemonIdle /\ LoopIdle
SpecDownloadFit == InitDownloadFit /\ [][DownloadNext]_vars

InitDownloadLoop == DownloadLoopStart /\ UnitIdle /\ PipeIdle /\ ParseIdle /\ SyncIdle /\ ConcIdle /\ DaemonIdle
SpecDownloadLoop == InitDownloadLoop /\ [][DownloadLoopNext]_vars

InitReprocess == ReprocessStart /\ UnitIdle /\ PipeIdle /\ ParseIdle /\ SyncIdle /\ ConcIdle /\ DaemonIdle
SpecReprocess == InitReprocess /\ [][ReprocessNext]_vars

InitDaemon == DaemonInit /\ UnitIdle /\ PipeIdle /\ ParseIdle /\ SyncIdle /\ ConcIdle /\ LoopIdle
SpecDaemon == InitDaemon /\ [][DaemonNext]_vars

-----------------------------------------------------------------------------
(* Claims about parse_fit_file, under SpecParse *)

IsRecord(fr) == fr.frame_type = "data" /\ fr.name = "record"
IsSession(fr) == fr.frame_type = "data" /\ fr.name = "session"
Carries(fr, field) == ~IsNone(get_value(fr, field))

RecordIndices == {i \in 1..Len(frames) : IsRecord(frames[i])}
SessionIndices == {i \in 1..Len(frames) : IsSession(frames[i])}

\* the number of record frames read so far that carry every field of fields
PresentCount(fields) ==
    Cardinality({i \in RecordIndices : \A f \in fields : Carries(frames[i], f)})

\* C2: after any sequence of frames, each accumulator series has one entry
\* per record frame in which its field was present, whatever the value (0
\* included), and positions one entry per frame with latitude and longitude.
C2_SeriesCountPresentFields ==
    /\ Len(acc.detailed.timestamps) = PresentCount({"timestamp"})
    /\ Len(acc.detailed.altitudes) = PresentCount({"altitude"})
    /\ Len(acc.detailed.speeds) = PresentCount({"speed"})
    /\ Len(acc.detailed.cadences) = PresentCount({"cadence"})
    /\ Len(acc.detailed.powers) = PresentCount({"power"})
    /\ Len(acc.detailed.positions) = PresentCount({"position_lat", "position_long"})

LastSession == frames[CHOOSE i \in SessionIndices : \A j \in SessionIndices : j <= i]

\* a cycling session and n >= 1 record frames, each with speed, cadence and
\* altitude and none with power
ScenarioA ==
    /\ SessionIndices # {}
    /\ get_value(LastSession, "sport") \in CYCLING_SPORTS
    /\ RecordIndices # {}
    /\ \A i \in RecordIndices :
          /\ Carries(frames[i], "speed") /\ Carries(frames[i], "cadence")
          /\ Carries(frames[i], "altitude") /\ ~Carries(frames[i], "power")

\* C7: for a cycling log of n >= 1 record frames with speed, cadence and
\* altitude but no power, the result is populated, its typeKey is the session
\* sport, its distance the session total_distance, and powers holds exactly n
\* estimated entries.
C7_ScenarioAPopulated ==
    (ppc = "returned" /\ ScenarioA) =>
        /\ ~IsNone(presult)
        /\ Val(presult).activityType.typeKey = get_value(LastSession, "sport")
        /\ Val(presult).summaryDTO.distance = get_value(LastSession, "total_distance")
        /\ Len(Val(presult).detailedMetrics.powers) = Cardinality(RecordIndices)
        /\ \A i \in DOMAIN Val(presult).detailedMetrics.powers :
              Val(presult).detailedMetrics.powers[i].src = "estimated"

-----------------------------------------------------------------------------
(* Claims about compute_gradient, under SpecGradient *)

\* C4: compute_gradient is total: for every altitude and position series,
\* identical consecutive positions included, it returns a series as long as
\* the altitude series.
C4_GradientTotal ==
    upc = "returned" =>
        /\ Val(uout).ok
        /\ Len(Val(uout).val) = Len(uin.altitudes)

-----------------------------------------------------------------------------
(* Claims about parse_xml_file, under SpecXml *)

XmlFields == {"distance", "duration", "calories"}

\* the number the text of an optional element denotes for its field, or None
\* when the element is absent or its text is no number
ExpectedNumber(doc, field) ==
    IF IsNone(doc[field]) THEN None
    ELSE LET t == Val(doc[field]) IN
         IF field = "calories"
         THEN (IF t.form = "int" THEN Some(t.v) ELSE None)
         ELSE (IF t.form \in {"int", "dec"} THEN Some(t.v) ELSE None)

\* C5: DistanceMeters, TotalTimeSeconds and Calories are independently
\* optional: an absent element, or one whose text is no number, gives a null
\* field in a result that is still returned with the other fields populated.
C5_XmlFieldsIndependent ==
    (upc = "returned" /\ uin.file.content.wellformed /\ ~IsNone(uin.file.content.activity)) =>
        /\ ~IsNone(Val(uout).val)
        /\ \A f \in XmlFields :
              Val(Val(uout).val).summaryDTO[f] = ExpectedNumber(uin.file.content, f)
-----------------------------------------------------------------------------
(* Claims about detect_file_type, under SpecDetect *)

\* bytes [off, off + len(sig)) of b are sig
BytesAt(b, off, sig) ==
    /\ Len(b) >= off + Len(sig)
    /\ \A i \in 1..Len(sig) : b[off + i] = sig[i]

\* b'<?xml' lies within the first 20 bytes of b
XmlInWindow(b) == \E off \in 0..(XmlWindow - Len(XML_SIG)) : BytesAt(b, off, XML_SIG)

FitSignature(b) ==
    \/ BytesAt(b, 4, DOT_FIT) \/ BytesAt(b, 0, DOT_FIT)
    \/ BytesAt(b, 4, FIT_DOT) \/ BytesAt(b, 8, DOT_FIT)

Sniffed == upc = "returned" /\ uin.file.readable /\ ~XmlInWindow(uin.file.bytes)

\* C8 as stated: for a readable sequence of any length without b'<?xml' in
\* its first 20 bytes, the result is 'fit' exactly when one of the four
\* signature positions matches, and 'unknown' otherwise.
C8_FitIffSignature ==
    Sniffed =>
        Val(uout).val = (IF FitSignature(uin.file.bytes) THEN "fit" ELSE "unknown")

\* C8 amended: the result is 'fit' exactly when the sequence has at least 8
\* bytes and one of the four signature positions matches, 'unknown' otherwise.
C8_FitIffSignatureOfEightBytes ==
    Sniffed =>
        Val(uout).val = (IF Len(uin.file.bytes) >= 8 /\ FitSignature(uin.file.bytes)
                         THEN "fit" ELSE "unknown")

\* a sequence of 4 to 7 bytes that starts with b'.FIT' and is not recognized
C8_ShortFitPrefixUnknown ==
    /\ Sniffed
    /\ Len(uin.file.bytes) \in 4..7
    /\ BytesAt(uin.file.bytes, 0, DOT_FIT)
    /\ Val(uout).val = "unknown"

-----------------------------------------------------------------------------
(* Claims about get_activity_metrics, under Spec *)

Called(fn) == \E i \in DOMAIN calls : calls[i] = fn
CallCount(fn) == Cardinality({i \in DOMAIN calls : calls[i] = fn})

LocalFile == has_local_file(activity, file)

\* the file is the gzip-compressed form of a decodable binary log
GzippedLog ==
    /\ LocalFile
    /\ Val(file).readable
    /\ Val(file).content.kind = "gzip" /\ Val(file).content.intact
    /\ Val(file).content.inner.kind = "fit" /\ Val(file).content.inner.decodable

\* C1: the pipeline returns for the gzip-compressed form of a binary log what
\* it returns for the uncompressed form.
C1_GzipSameAsPlain ==
    (pc = "done" /\ GzippedLog) =>
        LET plain == local_metrics(Gunzipped(Val(file)), None) IN
        (IsNone(client) \/ ~IsNone(plain)) => Val(ret).val = returned_value(plain)

\* the local binary parse ends in the ValueError of an estimator
ValidationFailure ==
    /\ LocalFile
    /\ Val(file).content.kind = "fit"
    /\ detect_file_type(Val(file)) = "fit"
    /\ LET r == parse_fit_body(Val(file)) IN IsRaise(r) /\ r.val = "ValueError"

\* C3: a ValidationFailure of an estimator reaches the caller as a failure,
\* not as null, and the remote service is not consulted.
C3_ValidationFailureSurfaced ==
    (pc = "done" /\ ValidationFailure) =>
        /\ ~Val(ret).ok
        /\ ~Called("get_activity_details")

\* the sport of the last session frame of a log, "other" without one
RECURSIVE SportOf(_)
SportOf(fs) ==
    IF fs = <<>> THEN Some("other")
    ELSE IF IsSession(fs[Len(fs)]) THEN get_value(fs[Len(fs)], "sport")
    ELSE SportOf(SubSeq(fs, 1, Len(fs) - 1))

\* the metrics returned come from the local binary log
FromLocalLog ==
    /\ LocalFile
    /\ Val(file).content.kind = "fit"
    /\ Called("parse_fit_file")
    /\ ~IsNone(metrics)
    /\ ~Called("get_activity_details")

\* C6: metrics obtained from a local binary log are returned with the
\* activity type, whose typeKey is the session's sport.
C6_ReturnCarriesActivityType ==
    (pc = "done" /\ FromLocalLog) =>
        /\ ~IsNone(Val(ret).val)
        /\ "activityType" \in DOMAIN Val(Val(ret).val)
        /\ Val(Val(ret).val).activityType.typeKey = SportOf(Val(file).content.frames)

Missing == ~LocalFile
Unreadable == LocalFile /\ ~Val(file).readable
Unrecognized == LocalFile /\ Val(file).readable /\ ~XmlInWindow(Val(file).bytes)
                /\ ~(Len(Val(file).bytes) >= 8 /\ FitSignature(Val(file).bytes))
MalformedXml == LocalFile /\ Val(file).readable /\ XmlInWindow(Val(file).bytes)
                /\ (Val(file).content.kind = "xml" => ~Val(file).content.wellformed)
Undecodable == LocalFile /\ Val(file).readable /\ ~XmlInWindow(Val(file).bytes)
               /\ Len(Val(file).bytes) >= 8 /\ FitSignature(Val(file).bytes)
               /\ (Val(file).content.kind = "fit" => ~Val(file).content.decodable)
               /\ (Val(file).content.kind = "gzip" => ~Val(file).content.intact)

\* C9: without a remote client the call returns null and does not raise when
\* the file is missing or unreadable, when its bytes match no signature (and
\* then no parser is invoked), and when its content is malformed.
C9_NoLocalResultReturnsNull ==
    /\ pc = "done" => Val(ret).ok
    /\ (pc = "done" /\ IsNone(client)
           /\ (Missing \/ Unreadable \/ Unrecognized \/ MalformedXml \/ Undecodable)) =>
          /\ IsNone(Val(ret).val)
          /\ Unrecognized => ~Called("parse_fit_file") /\ ~Called("parse_xml_file")

\* an undecodable binary container went through the parser and gave null
C9_UndecodableGaveNull ==
    /\ pc = "done" /\ IsNone(client) /\ Undecodable
    /\ Called("parse_fit_file")
    /\ Val(ret).ok /\ IsNone(Val(ret).val)

\* C10: the remote service is called at most once, after the local attempt,
\* only when that attempt gave no result, and an exception it raises is
\* absorbed: the call returns null.
C10_RemoteOnlyAsFallback ==
    /\ CallCount("get_activity_details") <= 1
    /\ Called("get_activity_details") =>
          /\ calls[Len(calls)] = "get_activity_details"
          /\ LocalFile => (calls[1] = "detect_file_type"
                           /\ IsNone(local_metrics(Val(file), None)))
    /\ (pc = "done" /\ LocalFile /\ ~IsNone(local_metrics(Val(file), None))) =>
          ~Called("get_activity_details")
    /\ (pc = "done" /\ Called("get_activity_details") /\ client = Some("raises")) =>
          (Val(ret).ok /\ IsNone(Val(ret).val))

\* the remote call was made after a failed local parse, raised, and null came back
C10_RemoteRaisedAfterLocal ==
    /\ pc = "done" /\ client = Some("raises")
    /\ Called("parse_fit_file") /\ Called("get_activity_details")
    /\ Val(ret).ok /\ IsNone(Val(ret).val)

-----------------------------------------------------------------------------
(* Claims about the cycling gate of parse_fit_file, under SpecParse *)

\* the sport of the log read so far is none of the three cycling sports
NonCycling ==
    SportOf(frames) \notin {Some("cycling"), Some("road_biking"), Some("mountain_biking")}

\* the avg_power of the last session frame, None without a session frame
SessionAvgPower ==
    IF SessionIndices = {} THEN None ELSE get_value(LastSession, "avg_power")

\* C11: for a log whose sport is not cycling, road_biking or mountain_biking
\* (or that has no session frame) nothing is estimated: gearAnalysis is
\* empty, avgPower is the session's avg_power and every entry of powers is a
\* power value reported in a record frame.
C11_EstimatesOnlyWhenCycling ==
    (ppc = "returned" /\ NonCycling /\ ~IsNone(presult)) =>
        /\ IsNone(Val(presult).summaryDTO.gearAnalysis)
        /\ IsNone(Val(presult).summaryDTO.avgPower) = IsNone(SessionAvgPower)
        /\ ~IsNone(SessionAvgPower) => Val(presult).summaryDTO.avgPower = SessionAvgPower
        /\ \A i \in DOMAIN Val(presult).detailedMetrics.powers :
              \E j \in RecordIndices :
                 /\ Carries(frames[j], "power")
                 /\ Val(get_value(frames[j], "power")) = Val(presult).detailedMetrics.powers[i]

\* a running log with speed, cadence and gradient samples but no power is
\* returned without estimates
C11_RunningLogNotEstimated ==
    /\ ppc = "returned"
    /\ SportOf(frames) = Some("running")
    /\ ~IsNone(presult)
    /\ Val(presult).detailedMetrics.speeds # <<>>
    /\ Val(presult).detailedMetrics.cadences # <<>>
    /\ Val(presult).detailedMetrics.gradients # <<>>
    /\ Val(presult).detailedMetrics.powers = <<>>

-----------------------------------------------------------------------------
(* Claims about analyze_gear_ratio, under SpecGear *)

\* the three series are non-empty and of one length
WellFormed ==
    /\ Len(uin.speed_data) > 0
    /\ Len(uin.speed_data) = Len(uin.cadence_data)
    /\ Len(uin.speed_data) = Len(uin.gradient_data)

\* the indices of the samples on flat terrain, fast enough and pedalled
ValidIndices ==
    {i \in 1..Len(uin.speed_data) :
        /\ Abs(uin.gradient_data[i].n) < 3 * uin.gradient_data[i].d
        /\ uin.speed_data[i] > 417
        /\ uin.cadence_data[i] > 0}

\* C12: analyze_gear_ratio raises ValueError exactly when a series is empty
\* or the lengths differ, and it returns None only for well-formed series
\* none of whose samples is valid.
C12_RaisesIffMalformed ==
    upc = "returned" =>
        /\ IsRaise(Val(uout)) <=> ~WellFormed
        /\ IsRaise(Val(uout)) => Val(uout).val = "ValueError"
        /\ (~IsRaise(Val(uout)) /\ IsNone(Val(uout).val)) => (WellFormed /\ ValidIndices = {})

\* three empty series raised
C12_EmptySeriesRaised ==
    /\ upc = "returned"
    /\ uin.speed_data = <<>> /\ uin.cadence_data = <<>> /\ uin.gradient_data = <<>>
    /\ IsRaise(Val(uout))

GearFields ==
    {"estimated_chainring_teeth", "estimated_cassette_teeth", "gear_ratio",
     "gear_inches", "development_meters", "confidence_score"}

\* analyze_gear_ratio returned an estimate
Estimated == upc = "returned" /\ ~IsRaise(Val(uout)) /\ ~IsNone(Val(uout).val)

\* C13: every estimate analyze_gear_ratio returns has all six fields and a
\* confidence_score between 0 and 1, both included.
C13_EstimatePopulatedConfidenceInUnit ==
    Estimated =>
        /\ DOMAIN Val(Val(uout).val) = GearFields
        /\ Val(Val(uout).val).confidence_score.d > 0
        /\ Val(Val(uout).val).confidence_score.n >= 0
        /\ Val(Val(uout).val).confidence_score.n <= Val(Val(uout).val).confidence_score.d

\* an average ratio more than twice the largest gear gives confidence 0
C13_FarFromEveryGear ==
    /\ Estimated
    /\ Val(Val(uout).val).estimated_chainring_teeth = 46
    /\ Val(Val(uout).val).estimated_cassette_teeth = 11
    /\ Val(Val(uout).val).confidence_score.n = 0

\* gr of the sample at index i of the input
SampleRatio(i) == Reduce(uin.speed_data[i] * 600, uin.cadence_data[i] * 2096)

RECURSIVE SumOver(_)
SumOver(S) ==
    IF S = {} THEN Frac(0, 1)
    ELSE LET i == CHOOSE i \in S : TRUE IN FAdd(SampleRatio(i), SumOver(S \ {i}))

\* the mean of the ratios of the valid samples
ExpectedAverage ==
    LET total == SumOver(ValidIndices) IN Reduce(total.n, total.d * Cardinality(ValidIndices))

\* C20: for well-formed series analyze_gear_ratio returns None exactly when
\* no index has |gradient| < 3.0, speed > 4.17 and cadence > 0; otherwise the
\* average ratio is the mean, over exactly these indices, of the ratio of the
\* speed and the cadence at the index, and the estimate is fitted to it.
C20_NullIffNoValidSample ==
    /\ (upc = "returned" /\ WellFormed) =>
          /\ ~IsRaise(Val(uout))
          /\ IsNone(Val(uout).val) <=> ValidIndices = {}
          /\ ~IsNone(Val(uout).val) => Val(uout).val = gear_estimate(ExpectedAverage)
    /\ upc = "averaged" =>
          /\ WellFormed /\ ValidIndices # {}
          /\ Val(Val(uout).val).avg_gear_ratio = ExpectedAverage

\* the average is taken while a fast, pedalled sample of gradient exactly 3.0
\* is left out
C20_BoundarySamplesExcluded ==
    /\ upc = "averaged"
    /\ \E i \in 1..Len(uin.speed_data) :
          /\ i \notin ValidIndices
          /\ uin.gradient_data[i] = Frac(3, 1)
          /\ uin.speed_data[i] = 600 /\ uin.cadence_data[i] = 80

-----------------------------------------------------------------------------
(* Claims about calculate_power, under SpecPower *)

NegativeSpeed == ~IsNone(uin.speed_ms) /\ Val(uin.speed_ms) < 0
NonFiniteGradient == ~IsNone(uin.gradient_percent) /\ ~IsFinite(Val(uin.gradient_percent))
ValidPowerInput ==
    /\ ~IsNone(uin.speed_ms) /\ Val(uin.speed_ms) >= 0
    /\ ~IsNone(uin.gradient_percent) /\ IsFinite(Val(uin.gradient_percent))

\* C14: calculate_power raises ValueError when the speed is negative and
\* when the gradient is nan or infinite, and returns a value for every speed
\* >= 0 with a finite gradient.
C14_RaisesIffInvalid ==
    upc = "returned" =>
        /\ NegativeSpeed => IsRaise(Val(uout))
        /\ NonFiniteGradient => IsRaise(Val(uout))
        /\ ValidPowerInput => ~IsRaise(Val(uout))

-----------------------------------------------------------------------------
(* Claims about sync_database, under SpecSync *)

\* the call sync_database(client) has returned
SyncReturned == spc \in {"done", "not_run"}

\* the entries of the response, none for a None response
ResponseEntries ==
    LET r == Val(sync_in).response IN
    IF IsRaise(r) \/ IsNone(r.val) THEN <<>> ELSE Val(r.val)

\* the activityId values of the dictionaries carrying both fields that are
\* not stored yet
NewIds ==
    {Val(ResponseEntries[i].activityId) :
        i \in {j \in DOMAIN ResponseEntries :
                 /\ ResponseEntries[j].kind = "dict"
                 /\ ~IsNone(ResponseEntries[j].activityId)
                 /\ ~IsNone(ResponseEntries[j].startTimeLocal)}}
    \ {row.activity_id : row \in Val(sync_in).stored}

\* C15: when sync_database(client) has returned, one row was added for each
\* activityId of a dictionary entry carrying both fields that was not stored,
\* and no other; the rows stored before are kept, and no two rows share an
\* activity_id.
C15_AddsExactlyNewValidEntries ==
    SyncReturned =>
        /\ Val(sync_in).stored \subseteq db
        /\ {row.activity_id : row \in db \ Val(sync_in).stored} = NewIds
        /\ Len(session_new) = Cardinality(NewIds)
        /\ \A r1, r2 \in db : r1.activity_id = r2.activity_id => r1 = r2

-----------------------------------------------------------------------------
(* Claims about concurrent invocations, under SpecConc *)

\* what get_activity_metrics returns for a log when it runs alone
AloneResult(log) == returned_value(local_metrics(ConcFile(log), None))

\* C16: under every interleaving of the steps of two invocations, each
\* invocation returns what it returns for its file when it runs alone.
C16_InterleavedAsAlone ==
    \A i \in DOMAIN inv : inv[i].pc = "done" => Val(inv[i].result) = AloneResult(inv[i].log)

\* both invocations returned metrics of different logs, each having taken a
\* step while the other was running
C16_BothReturnedInterleaved ==
    /\ inv # <<>>
    /\ \A i \in Invocations :
          /\ inv[i].pc = "done" /\ inv[i].interleaved
          /\ ~IsNone(Val(inv[i].result))
          /\ inv[i].acc.detailed.speeds # <<>>
    /\ inv[1].log # inv[2].log

-----------------------------------------------------------------------------
(* Claims about the XML rule of detect_file_type, under SpecDetect *)

\* b'<?xml' starts at offset off of the bytes of the file
XmlAt(off) == BytesAt(uin.file.bytes, off, XML_SIG)

\* b'<?xml' lies entirely within the first 20 bytes: it starts at 0..15
XmlWithinFirst20 == \E off \in 0..15 : XmlAt(off)

\* C17: a readable file is classified xml exactly when b'<?xml' lies
\* entirely within its first 20 bytes, whether or not the bytes match a
\* .FIT signature position; b'<?xml' that starts at offset 16 or later does
\* not make the file xml.
C17_XmlRuleFirst ==
    (upc = "returned" /\ uin.file.readable) =>
        (Val(uout).val = "xml" <=> XmlWithinFirst20)

\* a file with b'.FIT' at offset 8 and b'<?xml' at offset 12 is xml
C17_XmlOverFitSignature ==
    /\ upc = "returned" /\ uin.file.readable
    /\ BytesAt(uin.file.bytes, 8, DOT_FIT)
    /\ XmlAt(12)
    /\ Val(uout).val = "xml"

-----------------------------------------------------------------------------
(* Claims about the derived series of parse_fit_file, under SpecParse *)

Cycling ==
    SportOf(frames) \in {Some("cycling"), Some("road_biking"), Some("mountain_biking")}

\* the indices, in stream order, of the record frames whose field gave an
\* entry of its series
OriginsOf(field) ==
    IndicesFrom(1, [j \in DOMAIN frames |->
                      IsRecord(frames[j]) /\ Truthy(get_value(frames[j], field))])

\* the record frame gradients[i] belongs to: the one altitudes[i] came from
GradientFrame(i) == frames[OriginsOf("altitude")[i]]

\* the powers of the result were estimated, none was reported
PowersEstimated ==
    /\ OriginsOf("power") = <<>>
    /\ Val(presult).detailedMetrics.powers # <<>>

\* speeds, cadences and gradients were passed to gear analysis
GearAnalysed ==
    /\ Val(presult).detailedMetrics.speeds # <<>>
    /\ Val(presult).detailedMetrics.cadences # <<>>

\* C18: in the result of a cycling log every estimated powers[i] is computed
\* from the speed of the record frame gradients[i] belongs to, and the speed
\* and the cadence passed to gear analysis at index i are those of the record
\* frame gradients[i] belongs to.
C18_DerivedSeriesAligned ==
    (ppc = "returned" /\ ~IsNone(presult) /\ Cycling) =>
        /\ PowersEstimated =>
              \A i \in DOMAIN Val(presult).detailedMetrics.powers :
                 Some(Val(presult).detailedMetrics.powers[i].speed)
                    = get_value(GradientFrame(i), "speed")
        /\ GearAnalysed =>
              \A i \in DOMAIN Val(presult).detailedMetrics.speeds :
                 /\ Some(Val(presult).detailedMetrics.speeds[i])
                       = get_value(GradientFrame(i), "speed")
                 /\ Some(Val(presult).detailedMetrics.cadences[i])
                       = get_value(GradientFrame(i), "cadence")

\* C19: for a log whose session sport is outside the cycling set no gradient
\* is derived: a result is returned, and its gradients series is empty.
C19_GradientOnlyWhenCycling ==
    (ppc = "returned" /\ SessionIndices # {} /\ ~IsNone(SportOf(frames)) /\ NonCycling) =>
        /\ ~IsNone(presult)
        /\ Val(presult).detailedMetrics.gradients = <<>>

-----------------------------------------------------------------------------
(* Claims about the grid search of analyze_gear_ratio, under SpecGear *)

\* the pairs of the grid, and the place of a pair in the order of the loops
GridPairs == {<<ch, cog>> : ch \in {38, 46}, cog \in 11..27}
GridOrder(pair) == (IF pair[1] = 38 THEN 0 ELSE 17) + (pair[2] - 11)

\* |chainring/cog - average| of a pair, times cog * (denominator of the average)
DiffTimes(pair) == Abs(pair[1] * ExpectedAverage.d - ExpectedAverage.n * pair[2])

\* |p[1]/p[2] - average| < |q[1]/q[2] - average|
NearerThan(p, q) == DiffTimes(p) * q[2] < DiffTimes(q) * p[2]

\* C21: every estimate has its chainring in {38, 46}, its cog in 11..27 and
\* gear_ratio = chainring/cog; no pair of the grid is nearer to the average
\* ratio, and every pair visited before it is strictly farther.
C21_NearestGridPairFirstWins ==
    Estimated =>
        LET e == Val(Val(uout).val)
            got == <<e.estimated_chainring_teeth, e.estimated_cassette_teeth>>
        IN  /\ got \in GridPairs
            /\ e.gear_ratio.n * got[2] = got[1] * e.gear_ratio.d
            /\ \A p \in GridPairs : ~NearerThan(p, got)
            /\ \A p \in GridPairs : GridOrder(p) < GridOrder(got) => NearerThan(got, p)

\* 38/19 is returned where 46/23, the same ratio, is as near
C21_TieGoesTo38x19 ==
    /\ Estimated
    /\ Val(Val(uout).val).estimated_chainring_teeth = 38
    /\ Val(Val(uout).val).estimated_cassette_teeth = 19
    /\ ~NearerThan(<<38, 19>>, <<46, 23>>)

-----------------------------------------------------------------------------
(* Claims about the frame loop of parse_fit_file, under SpecParse *)

SessionFields ==
    {"sport", "total_timer_time", "total_distance", "max_heart_rate",
     "avg_power", "total_calories"}

\* a data frame named record or session
Relevant(fr) == IsRecord(fr) \/ IsSession(fr)

\* C22: after any sequence of frames the session summary is empty when no
\* session frame was read and otherwise holds exactly the six fields of the
\* last session frame, null ones included; the summary and the sample series
\* are what the record and session data frames alone give.
C22_LastSessionWins ==
    ppc \in {"loop", "returned", "failed"} =>
        /\ SessionIndices = {} => DOMAIN acc.metrics = {}
        /\ SessionIndices # {} =>
              /\ DOMAIN acc.metrics = SessionFields
              /\ \A k \in SessionFields : acc.metrics[k] = get_value(LastSession, k)
        /\ acc = FrameLoop(Acc0, SelectSeq(frames, Relevant))

\* a session frame with a maximum heart rate, a frame of another name, then a
\* session frame without one: no maximum heart rate is kept
C22_EarlierSessionForgotten ==
    /\ ppc = "loop"
    /\ Len(frames) = 3
    /\ IsSession(frames[1]) /\ get_value(frames[1], "max_heart_rate") = Some(170)
    /\ ~Relevant(frames[2])
    /\ IsSession(frames[3]) /\ IsNone(get_value(frames[3], "max_heart_rate"))
    /\ IsNone(acc.metrics["max_heart_rate"])

-----------------------------------------------------------------------------
(* Claims about the values of compute_gradient, under SpecGradient *)

\* d_i of the step from sample i to sample i + 1 (1-based): the distance of
\* the two positions where both exist, 10 metres otherwise
StepDistance(i) ==
    IF i + 1 <= Len(uin.positions)
    THEN distance_between_points(uin.positions[i], uin.positions[i + 1])
    ELSE 10

\* the fraction g is elev * 100 / dist
IsGradientOf(g, elev, dist) == dist # 0 /\ g.d # 0 /\ g.n * dist = elev * 100 * g.d

\* C23: compute_gradient returns a series g as long as the altitudes; all 0
\* for fewer than 2 altitudes; otherwise g[0] = g[1] and each later g[i] is
\* the rise from sample i-1 to sample i over d_i, times 100.
C23_GradientValues ==
    upc = "returned" =>
        /\ ~IsRaise(Val(uout))
        /\ Len(Val(uout).val) = Len(uin.altitudes)
        /\ Len(uin.altitudes) < 2 => \A i \in DOMAIN Val(uout).val : Val(uout).val[i].n = 0
        /\ Len(uin.altitudes) >= 2 =>
              /\ Val(uout).val[1] = Val(uout).val[2]
              /\ \A i \in 1..(Len(uin.altitudes) - 1) :
                    IsGradientOf(Val(uout).val[i + 1],
                                 uin.altitudes[i + 1] - uin.altitudes[i], StepDistance(i))

-----------------------------------------------------------------------------
(* Claims about GarminSyncDaemon's threads, under SpecDaemon *)

\* stop() or the web UI's shutdown_event has set running to False
StopRequested == mpc = "stopped"

\* C24: under every interleaving of start and the worker thread, the worker
\* loop keeps running until stop() or the web shutdown sets running to False:
\* the worker has not ended unless one of them was called.
C24_WorkerRunsUntilStop == wpc = "stopped" => StopRequested

\* The task types waiting in a queue
QueuedTypes(q) == {q[j].task_type : j \in 1..Len(q)}

\* C30: the worker executes tasks serially and in priority order: when it
\* takes a task, the function of every task taken before has finished in the
\* pool, and a reprocess task is never taken from a queue that holds a sync
\* task.
C30_SerialPriorityOrder ==
    /\ \A i \in 1..Len(executed) :
        /\ i < Len(executed) => executed[i].finished
        /\ "sync" \in QueuedTypes(executed[i].queued) => executed[i].task_type = "sync"
    /\ wpc = "get" => IsNone(current) /\ \A i \in 1..Len(executed) : executed[i].finished
    /\ IsNone(current) <=> (executed = <<>> \/ executed[Len(executed)].finished)

\* Witness for C30: a reprocess task was put before a sync task, the worker
\* then took the sync task ahead of it, and after the sync function had
\* finished it took the reprocess task.
C30_SyncTakenAheadOfEarlierReprocess ==
    \E i \in 1..Len(executed) :
        /\ executed[i].task_type = "sync"
        /\ executed[i].queued[1].task_type = "reprocess"
        /\ i < Len(executed)
        /\ executed[i + 1].task_type = "reprocess"

-----------------------------------------------------------------------------
(* Claims about GarminClient.download_activity_fit, under SpecDownloadFit *)

\* The call has ended
DownloadEnded == upc \in {"returned", "raised"}

\* Method i raised or returned empty data
MethodFailed(i) == ~fit_data_truthy(Val(uin).methods[i])

\* The first method that yields non-empty data, 0 when none does
FirstWithData ==
    IF \A i \in MethodNumbers : MethodFailed(i) THEN 0
    ELSE CHOOSE i \in MethodNumbers : ~MethodFailed(i) /\ \A j \in 1..(i - 1) : MethodFailed(j)

\* The methods 1..n in order
FirstMethods(n) == [i \in 1..n |-> i]

\* authenticate() ran and raised
AuthenticateFailed == ~Val(uin).authenticated /\ IsRaise(Val(uin).authenticate)

\* C27 as stated: the methods are tried in the order 1, 2, 3, the data of the
\* first method that yields non-empty data is returned without a later method
\* being invoked, and RuntimeError is raised exactly when all three methods
\* were invoked and each raised or returned empty data.
C27_RuntimeErrorIffAllMethodsFailed ==
    DownloadEnded =>
        LET l == Val(uout) r == Val(l.result) IN
        /\ (IsRaise(r) /\ r.val = "RuntimeError")
               <=> (l.invoked = FirstMethods(3) /\ \A i \in MethodNumbers : MethodFailed(i))
        /\ r.ok => /\ FirstWithData # 0
                   /\ l.invoked = FirstMethods(FirstWithData)
                   /\ r.val = Val(uin).methods[FirstWithData].val

\* C27 amended: when the client is not set and authenticate() raises, its
\* exception (ValueError, ConnectionError or RuntimeError) is raised and no
\* method is invoked; otherwise the methods are tried in the order 1, 2, 3,
\* the data of the first that yields non-empty data is returned without a
\* later method being invoked, and RuntimeError is raised exactly when all
\* three raised or returned empty data.
C27_MethodsInOrderAfterAuthenticate ==
    /\ upc = "methods" => \E n \in 0..3 :
        /\ Val(uout).invoked = FirstMethods(n)
        /\ \A i \in 1..n : MethodFailed(i)
    /\ DownloadEnded =>
        LET l == Val(uout) r == Val(l.result) IN
        IF AuthenticateFailed
        THEN l.invoked = <<>> /\ r = Val(uin).authenticate
        ELSE /\ r.ok <=> FirstWithData # 0
             /\ r.ok => /\ l.invoked = FirstMethods(FirstWithData)
                        /\ r.val = Val(uin).methods[FirstWithData].val
                        /\ r.val # <<>>
             /\ IsRaise(r) => /\ r.val = "RuntimeError"
                              /\ l.invoked = FirstMethods(3)

\* Witness for C27: method 1 raised, method 2 returned empty data, and the
\* data of method 3 was returned.
C27_ThirdMethodAfterRaiseAndEmpty ==
    /\ upc = "returned"
    /\ IsRaise(Val(uin).methods[1])
    /\ Val(uin).methods[2] = Ok(<<>>)
    /\ Val(uout).invoked = <<1, 2, 3>>
    /\ Val(Val(uout).result) = Ok(<<3>>)

-----------------------------------------------------------------------------
(* Claims about the download loops, under SpecDownloadLoop *)

\* The file the loops write for an activity
FileOf(id) == filepath(id, StartTime(id))

\* The iterations that have ended
Ended(e) == e.outcome # "pending"

\* C25: in sync_and_download, an activity whose FIT data was downloaded and
\* written without error ends its iteration committed with downloaded=True
\* and its filename set, whatever get_activity_metrics returned for it.
C25_WrittenActivityCommitted ==
    Val(env).loop = "daemon" =>
        \A i \in 1..Len(trace) :
            (trace[i].fit_data /\ trace[i].written /\ Ended(trace[i])) =>
                /\ table[trace[i].activity_id].downloaded
                /\ table[trace[i].activity_id].filename = Some(FileOf(trace[i].activity_id))

\* C26: in every committed state of the three download loops a row with
\* downloaded=True names the file that was written for it; an iteration whose
\* download or write failed is rolled back and leaves its row as it was, not
\* downloaded, with no uncommitted change left in the session; and the loop
\* goes on through every activity of the query.
C26_DownloadedNamesWrittenFile ==
    /\ \A id \in ActivityIds :
        table[id].downloaded =>
            /\ table[id].filename = Some(FileOf(id))
            /\ FileOf(id) \in disk
    /\ \A i \in 1..Len(trace) :
        LET e == trace[i] IN
        /\ e.activity_id = worklist[i]
        /\ (~e.fit_data \/ ~e.written) =>
            /\ e.outcome = "rolled_back"
            /\ table[e.activity_id] = NewRow(e.activity_id)
    /\ lpc \in {"download", "done"} => objs = table
    /\ lpc = "done" => Len(trace) = Len(worklist)

\* Witness for C26: the download or write of the first missing activity
\* failed, and the loop went on and committed the second one as downloaded.
C26_FailureThenCommit ==
    /\ lpc = "done"
    /\ Len(trace) = 2
    /\ ~trace[1].written /\ trace[1].outcome = "rolled_back"
    /\ trace[2].outcome = "committed"
    /\ ~table[trace[1].activity_id].downloaded
    /\ table[trace[2].activity_id].downloaded

-----------------------------------------------------------------------------
(* Claims about the reprocess loops, under SpecReprocess *)

\* C28: reprocessing never replaces a stored non-null metric column with
\* null. Every row starts with all its metric columns stored, so none is
\* null in any committed state.
C28_StoredFieldsNotNulled ==
    \A id \in ActivityIds : \A f \in MetricFields : ~IsNone(table[id][f])

\* The entries of the log that belong to a run
EntriesOf(run) == {i \in 1..Len(trace) : trace[i].run = run}

\* A run in which no iteration raised
ExceptionFree(run) == \A i \in EntriesOf(run) : trace[i].outcome \in {"pending", "committed"}

\* C29: reprocess_activities processes only rows with downloaded=True and
\* reprocessed=False, and commits reprocessed=True for each row it processes
\* without an exception; so no row is committed by two runs, and the run that
\* follows an exception-free run finds nothing to reprocess.
C29_ReprocessedOnce ==
    Val(env).loop = "daemon" =>
        /\ lpc \in {"reprocess", "commit"} =>
            table[CurrentId].downloaded /\ ~table[CurrentId].reprocessed
        /\ \A i \in 1..Len(trace) :
            /\ table[trace[i].activity_id].downloaded
            /\ trace[i].outcome = "committed" => table[trace[i].activity_id].reprocessed
            /\ \A j \in 1..Len(trace) :
                (i # j /\ trace[i].activity_id = trace[j].activity_id)
                    => ~(trace[i].outcome = "committed" /\ trace[j].outcome = "committed")
        /\ (Val(env).run > 1 /\ lpc # "query" /\ ExceptionFree(Val(env).run - 1)) =>
            /\ worklist = <<>>
            /\ EntriesOf(Val(env).run) = {}

\* Witness for C29: the first run of the daemon's job reprocessed two rows
\* without an exception, and the second run found nothing and ended.
C29_SecondRunFindsNothing ==
    /\ Val(env).loop = "daemon"
    /\ Val(env).run = 2
    /\ lpc = "done"
    /\ Cardinality(EntriesOf(1)) = 2
    /\ ExceptionFree(1)
    /\ worklist = <<>>

====
